---- MODULE Spec2Model ----
(***************************************************************************)
(* A model of the concurrent data engine of redisrs: the key-value store   *)
(* (src/src/rdb.rs), the list store with blocking pop (src/src/lists.rs)   *)
(* and the stream store with blocking tail read (src/src/streams.rs).      *)
(*                                                                         *)
(* Every connection is one task (src/src/main.rs:64).  A task suspends     *)
(* only where the source awaits: when it acquires a guard, and when it     *)
(* waits on its single-shot notifier under a timeout.  Each guarded        *)
(* section is therefore two steps of the model: the acquisition, and the   *)
(* body that ends by releasing the guard.                                  *)
(*                                                                         *)
(* Byte strings that the code parses, formats or orders are sequences of   *)
(* one-character strings, so that parsing, formatting and byte-wise        *)
(* ordering are computed and not assumed.                                  *)
(***************************************************************************)
EXTENDS Integers, Sequences, FiniteSets, TLC

(***************************************************************************)
(* Bounds of the model.                                                    *)
(***************************************************************************)
\* The clock runs over 0..MaxTime milliseconds.
MaxTime == 2
\* At most MaxXadd XADD calls are started in one behaviour.
MaxXadd == 3
\* A list holds at most MaxLen elements.
MaxLen == 2
\* A waiter queue holds at most MaxWaiters notifiers.
MaxWaiters == 2
\* INCR is started at most MaxIncr times in one behaviour.
MaxIncr == 3
\* SET is started at most MaxSet times in one behaviour.
MaxSet == 2
\* The wall clock, in milliseconds, shows WallBase + now.
WallBase == 9

Clients == {"c1", "c2"}

\* The connection tasks of the server (src/src/main.rs:58-64): those of
\* the clients, and one more connection that takes part where three tasks
\* are needed.
Tasks == Clients \cup {"c3"}

\* Option::None, and the absence of a value in general.
None == "None"

\* Option::None where Some holds a byte string.
NoBytes == <<"None">>

(***************************************************************************)
(* Byte strings.                                                           *)
(***************************************************************************)
Digits == <<"0", "1", "2", "3", "4", "5", "6", "7", "8", "9">>

IsDigit(c) == \E d \in 1..10 : Digits[d] = c

DigitVal(c) == (CHOOSE d \in 1..10 : Digits[d] = c) - 1

Lower ==
    << "a", "b", "c", "d", "e", "f", "g", "h", "i", "j", "k", "l", "m",
       "n", "o", "p", "q", "r", "s", "t", "u", "v", "w", "x", "y", "z" >>

IsLower(c) == \E i \in 1..26 : Lower[i] = c

\* The byte value of a character: the order of u8 (and of char, for ASCII).
Ord(c) ==
    IF IsDigit(c) THEN 48 + DigitVal(c)
    ELSE IF IsLower(c) THEN 96 + (CHOOSE i \in 1..26 : Lower[i] = c)
    ELSE CASE c = "$" -> 36
           [] c = "*" -> 42
           [] c = "+" -> 43
           [] c = "-" -> 45
           [] c = "?" -> 63
           [] c = "[" -> 91
           [] c = "\\" -> 92
           [] c = "]" -> 93
           [] c = "^" -> 94
           [] OTHER -> 120

\* Ord for Bytes: byte-wise lexicographic comparison, a proper prefix first.
\* -1, 0, 1 for Less, Equal, Greater.
RECURSIVE BytesCmp(_, _)
BytesCmp(a, b) ==
    IF a = <<>> THEN (IF b = <<>> THEN 0 ELSE -1)
    ELSE IF b = <<>> THEN 1
    ELSE IF Ord(Head(a)) < Ord(Head(b)) THEN -1
    ELSE IF Ord(Head(a)) > Ord(Head(b)) THEN 1
    ELSE BytesCmp(Tail(a), Tail(b))

\* The result of a parse that failed (Err / None).
ParseFail == -1

RECURSIVE DigitsValue(_, _)
DigitsValue(s, acc) ==
    IF s = <<>> THEN acc
    ELSE IF ~IsDigit(Head(s)) THEN ParseFail
    ELSE DigitsValue(Tail(s), acc * 10 + DigitVal(Head(s)))

\* str::parse::<u64>: an optional '+', then one or more decimal digits.
ParseU64(s) ==
    IF s = <<>> THEN ParseFail
    ELSE IF Head(s) = "+"
         THEN (IF Len(s) = 1 THEN ParseFail ELSE DigitsValue(Tail(s), 0))
         ELSE DigitsValue(s, 0)

\* u64::to_string: the decimal digits, without leading zeros.
RECURSIVE U64ToString(_)
U64ToString(n) ==
    IF n < 10 THEN <<Digits[n + 1]>>
    ELSE Append(U64ToString(n \div 10), Digits[(n % 10) + 1])

\* memchr(b'-', s): the position of the first '-', 0 when there is none.
Memchr(c, s) ==
    IF \E i \in 1..Len(s) : s[i] = c
    THEN CHOOSE i \in 1..Len(s) : s[i] = c /\ \A j \in 1..(i - 1) : s[j] # c
    ELSE 0

\* format!("{}-{}", ts, seq)
FormatId(ts, seq) == ts \o <<"-">> \o seq

(***************************************************************************)
(* The stream store: pure parts of src/src/streams.rs.                     *)
(*                                                                         *)
(* StreamKV.map is a BTreeMap keyed by the pair (ts, seq) of byte strings: *)
(* a sequence of entries [ts, seq, fields] kept in the order of the keys,  *)
(* which is the order of Bytes and not the order of the numbers.           *)
(***************************************************************************)
\* Ord for (Bytes, Bytes): the first components, then the second.
KeyCmp(ts1, seq1, ts2, seq2) ==
    IF BytesCmp(ts1, ts2) # 0 THEN BytesCmp(ts1, ts2) ELSE BytesCmp(seq1, seq2)

\* u64::MAX, the bound that "+" stands for in XRANGE.  The model's integers
\* are narrower than 64 bits: this is the largest of them, above every
\* number an ID of the model holds.
U64Max == 2147483647

\* The errors of XADD.
ErrInvalidId == "ERR Invalid stream ID specified as stream command argument"
ErrZeroId == "ERR The ID specified in XADD must be greater than 0-0"
ErrTopItem == "ERR The ID specified in XADD is equal or smaller than the target stream top item"

\* The map of a stream, empty when the key has no stream.
StreamMap(strs, stream_key) ==
    IF stream_key \in DOMAIN strs THEN strs[stream_key] ELSE <<>>

\* BTreeMap::last_key_value: the entry with the greatest key in key order.
last_key_value(map) == map[Len(map)]

\* The loop of map.insert(kv[i], kv[i + 1]) over the pairs of kv.
RECURSIVE InsertPairs(_, _)
InsertPairs(fields, kv) ==
    IF Len(kv) < 2 THEN fields
    ELSE InsertPairs([f \in DOMAIN fields \cup {kv[1]} |->
                         IF f = kv[1] THEN kv[2] ELSE fields[f]],
                     Tail(Tail(kv)))

\* The empty BTreeMap of fields.
NoFields == [f \in {} |-> None]

\* stream.map.entry(key).or_insert(BTreeMap::new()), then the pairs of kv
\* inserted into the map found under key: an entry already stored under the
\* same bytes is kept and its fields are overwritten.
MapUpsert(map, ts, seq, kv) ==
    IF \E i \in 1..Len(map) : map[i].ts = ts /\ map[i].seq = seq
    THEN [i \in 1..Len(map) |->
             IF map[i].ts = ts /\ map[i].seq = seq
             THEN [map[i] EXCEPT !.fields = InsertPairs(@, kv)]
             ELSE map[i]]
    ELSE LET below == {i \in 1..Len(map) :
                          KeyCmp(map[i].ts, map[i].seq, ts, seq) < 0}
             n == Cardinality(below)
         IN  SubSeq(map, 1, n)
               \o <<[ts |-> ts, seq |-> seq, fields |-> InsertPairs(NoFields, kv)]>>
               \o SubSeq(map, n + 1, Len(map))

\* Lines 62-74 of xadd: the stream created when absent, the entry upserted.
StreamInsert(strs, stream_key, ts, seq, kv) ==
    [k \in DOMAIN strs \cup {stream_key} |->
        IF k = stream_key
        THEN MapUpsert(StreamMap(strs, stream_key), ts, seq, kv)
        ELSE strs[k]]

\* A panic of the task (an unwrap of None, an index out of bounds).
Panic == [ok |-> FALSE, ts |-> <<>>, seq |-> <<>>]

GeneratedId(ts, seq) == [ok |-> TRUE, ts |-> ts, seq |-> seq]

\* The ID of a first entry (stream absent or empty).
FirstId(cur_ts, current_timestamp) ==
    IF cur_ts # NoBytes
    THEN IF ParseU64(cur_ts) = ParseFail THEN Panic
         ELSE IF ParseU64(cur_ts) = 0 THEN GeneratedId(cur_ts, <<"1">>)
         ELSE GeneratedId(cur_ts, <<"0">>)
    ELSE GeneratedId(U64ToString(current_timestamp), <<"0">>)

\* Stream::generate_id.  cur_ts is NoBytes for "*", the bytes before the dash
\* for "ms-*"; current_timestamp is what current_unix_timestamp_ms returns.
generate_id(strs, stream_key, cur_ts, current_timestamp) ==
    IF StreamMap(strs, stream_key) # <<>>
    THEN LET last == last_key_value(StreamMap(strs, stream_key))
         IN  IF cur_ts # NoBytes
             THEN IF last.ts = cur_ts
                  THEN IF ParseU64(last.seq) = ParseFail THEN Panic
                       ELSE GeneratedId(cur_ts, U64ToString(ParseU64(last.seq) + 1))
                  ELSE GeneratedId(cur_ts, <<"0">>)
             ELSE IF ParseU64(last.ts) = ParseFail THEN Panic
                  ELSE IF current_timestamp > ParseU64(last.ts)
                       THEN GeneratedId(U64ToString(current_timestamp), <<"0">>)
                       ELSE IF ParseU64(last.seq) = ParseFail THEN Panic
                            ELSE GeneratedId(last.ts,
                                             U64ToString(ParseU64(last.seq) + 1))
    ELSE FirstId(cur_ts, current_timestamp)

\* Stream::validate_key: None when the ID is accepted, else the error.
validate_key(strs, stream_key, ts_str, seq_str) ==
    LET ts_num == ParseU64(ts_str)
        seq_num == ParseU64(seq_str)
    IN  IF ts_num = ParseFail \/ seq_num = ParseFail THEN ErrInvalidId
        ELSE IF ts_num = 0 /\ seq_num = 0 THEN ErrZeroId
        ELSE IF StreamMap(strs, stream_key) # <<>>
             THEN LET last == last_key_value(StreamMap(strs, stream_key))
                      last_ts_num == ParseU64(last.ts)
                      last_seq_num == ParseU64(last.seq)
                  IN  IF /\ last_ts_num # ParseFail
                         /\ last_seq_num # ParseFail
                         /\ \/ ts_num < last_ts_num
                            \/ (ts_num = last_ts_num /\ seq_num <= last_seq_num)
                      THEN ErrTopItem
                      ELSE None
             ELSE None

\* What a panic leaves in place of a list of entries.
PanicEntry == [id |-> <<"panic">>, fields |-> NoFields]

\* One element of a reply of XRANGE or XREAD: [id, [f1, v1, ...]].
EntryReply(e) == [id |-> FormatId(e.ts, e.seq), fields |-> e.fields]

\* The loop of xrange over the entries in key order, from the i-th on.
RECURSIVE XrangeScan(_, _, _, _, _, _)
XrangeScan(map, i, start_ts, start_seq, end_ts, end_seq) ==
    IF i > Len(map) THEN <<>>
    ELSE LET ts_num == ParseU64(map[i].ts)
             seq_num == ParseU64(map[i].seq)
             start_ts_num == ParseU64(start_ts)
             start_seq_num == ParseU64(start_seq)
             end_ts_num == IF end_ts = NoBytes THEN U64Max ELSE ParseU64(end_ts)
             end_seq_num == IF end_seq = NoBytes THEN U64Max ELSE ParseU64(end_seq)
             after_start == \/ ts_num > start_ts_num
                            \/ (ts_num = start_ts_num /\ seq_num >= start_seq_num)
             before_end == \/ ts_num < end_ts_num
                           \/ (ts_num = end_ts_num /\ seq_num <= end_seq_num)
         IN  IF ParseFail \in {ts_num, seq_num, start_ts_num, start_seq_num,
                               end_ts_num, end_seq_num}
             THEN <<PanicEntry>>
             ELSE IF after_start /\ before_end
             THEN <<EntryReply(map[i])>>
                    \o XrangeScan(map, i + 1, start_ts, start_seq, end_ts, end_seq)
             ELSE IF ts_num > end_ts_num
                       \/ (ts_num = end_ts_num /\ seq_num > end_seq_num)
             THEN <<>>
             ELSE XrangeScan(map, i + 1, start_ts, start_seq, end_ts, end_seq)

\* Stream::xrange.  "+" stands for (u64::MAX, u64::MAX), written NoBytes
\* here because the decimal digits of u64::MAX do not fit the model's
\* integers; a bound without a dash gives the empty reply.
xrange(strs, stream_id, start, end) ==
    LET sp == Memchr("-", start)
        ep == Memchr("-", end)
        start_ts == IF start = <<"-">> THEN <<"0">> ELSE SubSeq(start, 1, sp - 1)
        start_seq == IF start = <<"-">> THEN <<"0">>
                     ELSE SubSeq(start, sp + 1, Len(start))
        end_ts == IF end = <<"+">> THEN NoBytes ELSE SubSeq(end, 1, ep - 1)
        end_seq == IF end = <<"+">> THEN NoBytes ELSE SubSeq(end, ep + 1, Len(end))
    IN  IF start # <<"-">> /\ sp = 0 THEN <<>>
        ELSE IF end # <<"+">> /\ ep = 0 THEN <<>>
        ELSE XrangeScan(StreamMap(strs, stream_id), 1,
                        start_ts, start_seq, end_ts, end_seq)

\* The from-id of one pair of xread: "$" is the ID of the last entry in key
\* order, 0-0 when there is none.
ResolveFromId(strs, stream_key, from_id) ==
    IF from_id = <<"$">>
    THEN IF StreamMap(strs, stream_key) # <<>>
         THEN LET last == last_key_value(StreamMap(strs, stream_key))
              IN  FormatId(last.ts, last.seq)
         ELSE <<"0", "-", "0">>
    ELSE from_id

\* The entries of map after (cur_ts_int, cur_seq_int), in key order.
RECURSIVE XreadScan(_, _, _, _)
XreadScan(map, i, cur_ts_int, cur_seq_int) ==
    IF i > Len(map) THEN <<>>
    ELSE LET ts_int == ParseU64(map[i].ts)
             seq_int == ParseU64(map[i].seq)
         IN  IF ts_int = ParseFail \/ seq_int = ParseFail THEN <<PanicEntry>>
             ELSE IF \/ ts_int > cur_ts_int
                     \/ (ts_int = cur_ts_int /\ seq_int > cur_seq_int)
             THEN <<EntryReply(map[i])>>
                    \o XreadScan(map, i + 1, cur_ts_int, cur_seq_int)
             ELSE XreadScan(map, i + 1, cur_ts_int, cur_seq_int)

\* stream_entries of one pair (stream_key, from-id) of xread.
StreamEntries(strs, stream_key, from_id) ==
    LET stream_id == ResolveFromId(strs, stream_key, from_id)
        pos == Memchr("-", stream_id)
        cur_ts_int == ParseU64(SubSeq(stream_id, 1, pos - 1))
        cur_seq_int == ParseU64(SubSeq(stream_id, pos + 1, Len(stream_id)))
    IN  IF pos = 0 THEN <<>>
        ELSE IF cur_ts_int = ParseFail \/ cur_seq_int = ParseFail
        THEN <<PanicEntry>>
        ELSE XreadScan(StreamMap(strs, stream_key), 1, cur_ts_int, cur_seq_int)

\* Stream::xread over the pairs of kv: one element [key, entries] for every
\* pair with at least one entry.
RECURSIVE xread(_, _)
xread(strs, kv) ==
    IF Len(kv) < 2 THEN <<>>
    ELSE LET stream_entries == StreamEntries(strs, kv[1], kv[2])
         IN  (IF stream_entries # <<>>
              THEN <<[key |-> kv[1], entries |-> stream_entries]>>
              ELSE <<>>)
               \o xread(strs, Tail(Tail(kv)))

(***************************************************************************)
(* The state.                                                              *)
(***************************************************************************)
VARIABLES
    now,        \* the clock, in milliseconds since the server started
    pc,         \* where each connection task is in the call it executes
    cmd,        \* the command each task executes (its last one when idle)
    loc,        \* the local variables of the call each task executes
    result,     \* the last reply of each task
    guards,     \* every RwLock: its writer and its readers
    rx,         \* the oneshot receiver each task waits on (0: none)
    woken,      \* whether a value was sent to the receiver of each task
    streams,    \* Stream.streams: stream key -> entries in key order
    sblocked,   \* Stream.blocked: stream key -> queue of senders
    xlog,       \* history: per stream key, the successful XADDs in order
    nXadd,      \* history: the number of XADD calls started
    lists,      \* List.lists: list key -> deque of values
    lblocked,   \* List.blocked: list key -> queue of senders
    entries,    \* KeyValue.entries: key -> Set { value, expiry }
    klog,       \* history: per key, what SET and INCR did to it
    nIncr,      \* history: the number of INCR calls started
    nSet,       \* history: the number of SET calls started
    tr,         \* Transaction.tr: client -> TransactionState
    conn,       \* history: per client, frames handled and replies sent
    nFrames,    \* history: the number of frames received
    item,       \* history: what was last put on the wire, and its bytes
    wire,       \* the bytes on their way to the decoder
    buf,        \* the buffer of the decoder (Framed's read buffer)
    out         \* the result of the last call of decode

taskVars == <<pc, cmd, loc, result>>
chanVars == <<rx, woken>>
streamVars == <<streams, sblocked, xlog, nXadd>>
listVars == <<lists, lblocked>>
kvVars == <<entries, klog, nIncr, nSet>>
txVars == <<tr, conn, nFrames>>
codecVars == <<item, wire, buf, out>>
frontVars == <<txVars, codecVars>>
vars == <<now, taskVars, guards, chanVars, streamVars, listVars, kvVars, frontVars>>

\* The guards (tokio::sync::RwLock) of the stores.
GuardNames == {"streams", "sblocked", "lists", "lblocked", "entries", "tr"}

\* RwLock::write().await returns once nobody holds the guard.
CanWrite(g) == guards[g].w = None /\ guards[g].r = {}

\* RwLock::read().await returns once no writer holds the guard.
CanRead(g) == guards[g].w = None

AcquireWrite(g, c) == [guards EXCEPT ![g].w = c]
AcquireRead(g, c) == [guards EXCEPT ![g].r = @ \cup {c}]
\* The guard goes out of scope (or is dropped).
Release(g, c) ==
    [guards EXCEPT ![g] = [w |-> IF @.w = c THEN None ELSE @.w, r |-> @.r \ {c}]]

\* The guards a task holds.
Held(c) == {g \in GuardNames : guards[g].w = c \/ c \in guards[g].r}

(***************************************************************************)
(* Reply values (RedisValueRef, src/src/resp.rs).                          *)
(***************************************************************************)
NoReply == [t |-> "NoReply", v |-> <<>>]
Error(msg) == [t |-> "Error", v |-> msg]
BulkString(b) == [t |-> "BulkString", v |-> b]
Array(a) == [t |-> "Array", v |-> a]
Integer(n) == [t |-> "Int", v |-> n]
NullArray == [t |-> "NullArray", v |-> <<>>]
NullBulkString == [t |-> "NullBulkString", v |-> <<>>]
SimpleString(b) == [t |-> "String", v |-> b]

(***************************************************************************)
(* Single-shot notifiers (tokio::sync::oneshot).  A sender is the number   *)
(* of its channel; the receiver of a channel is alive while the task that  *)
(* created it waits on it.                                                 *)
(***************************************************************************)
\* Sender::is_closed: the receiver was dropped.
is_closed(sender) == \A c \in Tasks : rx[c] # sender

\* The senders a queue of a waiter map holds.
QueuedSenders(blocked) ==
    UNION {{blocked[k][i] : i \in 1..Len(blocked[k])} : k \in DOMAIN blocked}

\* The channels a queue or a waiting task refers to.
UsedChannels ==
    QueuedSenders(sblocked) \cup QueuedSenders(lblocked)
      \cup {rx[c] : c \in Tasks}

\* oneshot::channel(): a channel no queue and no task refers to.
FreshChannel(used) == CHOOSE n \in 1..(Cardinality(used) + 1) : n \notin used

\* Sender::send(true) on a sender: the value reaches the live receiver.
SendTo(sender) == [c \in Tasks |-> woken[c] \/ rx[c] = sender]

\* HashMap::remove(key).
RemoveKey(map, key) == [k \in DOMAIN map \ {key} |-> map[k]]

\* HashMap: the value under key set to val.
PutKey(map, key, val) ==
    [k \in DOMAIN map \cup {key} |-> IF k = key THEN val ELSE map[k]]

EmptyMap == [k \in {} |-> <<>>]

(***************************************************************************)
(* The stream store: Stream::xadd (src/src/streams.rs:36-121).             *)
(***************************************************************************)
StreamKeys == {"s"}

\* The streams the history is kept of: these, and a second stream "t" for
\* the reads that list two keys.
StreamNames == StreamKeys \cup {"t"}

\* The IDs given to XADD: 9-0, 10-0, 9-*, *, 0-0 and one without a dash.
XaddIds ==
    { <<"9", "-", "0">>, <<"1", "0", "-", "0">>, <<"9", "-", "*">>,
      <<"*">>, <<"0", "-", "0">>, <<"x">> }

\* The field/value lists given to XADD.
XaddKvs == { <<"f", "a">>, <<"f", "b">> }

\* current_unix_timestamp_ms()
current_unix_timestamp_ms == WallBase + now

NoLoc == [ts |-> <<>>, seq |-> <<>>, res |-> NoReply, snap |-> <<>>]

\* A task between two commands.
NoCmd == [op |-> "None"]

\* The two halves of an ID around its first dash.
IdTs(stream_id) == SubSeq(stream_id, 1, Memchr("-", stream_id) - 1)
IdSeq(stream_id) == SubSeq(stream_id, Memchr("-", stream_id) + 1, Len(stream_id))

\* The ID is fully specified: a dash, and no "*" on either side.
IsExplicitId(stream_id) ==
    /\ Memchr("-", stream_id) # 0
    /\ IdTs(stream_id) # <<"*">>
    /\ IdSeq(stream_id) # <<"*">>

\* xadd up to its first await.  An ID without a dash that is not "*" skips
\* to the notification with the error res was initialised with.
XaddStart(c, stream_key, stream_id, kv) ==
    /\ pc[c] = "idle"
    /\ nXadd < MaxXadd
    /\ nXadd' = nXadd + 1
    /\ cmd' = [cmd EXCEPT ![c] = [op |-> "XADD", key |-> stream_key,
                                  id |-> stream_id, kv |-> kv]]
    /\ loc' = [loc EXCEPT ![c] = [NoLoc EXCEPT !.res = Error(ErrInvalidId)]]
    /\ pc' = [pc EXCEPT ![c] =
                 IF Memchr("-", stream_id) = 0 /\ stream_id # <<"*">>
                 THEN "xadd_notify_wait" ELSE "xadd_resolve_wait"]
    /\ UNCHANGED <<now, frontVars, kvVars, result, guards, chanVars, streams, sblocked, xlog, listVars>>

\* self.streams.read().await in generate_id and in validate_key.
XaddResolveAcquire(c) ==
    /\ pc[c] = "xadd_resolve_wait"
    /\ CanRead("streams")
    /\ guards' = AcquireRead("streams", c)
    /\ pc' = [pc EXCEPT ![c] = "xadd_resolve"]
    /\ UNCHANGED <<now, frontVars, kvVars, cmd, loc, result, chanVars, streamVars, listVars>>

\* Lines 40-60 and 84-85: the final ID, or the error of validate_key, with
\* which xadd returns at once.
XaddResolve(c) ==
    LET stream_id == cmd[c].id
        key == cmd[c].key
        dash == Memchr("-", stream_id) # 0
        gen == IF ~dash \/ IdTs(stream_id) = <<"*">>
               THEN generate_id(streams, key, NoBytes, current_unix_timestamp_ms)
               ELSE generate_id(streams, key, IdTs(stream_id),
                                current_unix_timestamp_ms)
        err == validate_key(streams, key, IdTs(stream_id), IdSeq(stream_id))
    IN  /\ pc[c] = "xadd_resolve"
        /\ guards' = Release("streams", c)
        /\ IF IsExplicitId(stream_id)
           THEN IF err # None
                THEN /\ result' = [result EXCEPT ![c] = Error(err)]
                     /\ pc' = [pc EXCEPT ![c] = "reply"]
                     /\ loc' = [loc EXCEPT ![c] = NoLoc]
                ELSE /\ loc' = [loc EXCEPT ![c].ts = IdTs(stream_id),
                                           ![c].seq = IdSeq(stream_id)]
                     /\ pc' = [pc EXCEPT ![c] = "xadd_insert_wait"]
                     /\ UNCHANGED result
           ELSE IF gen.ok
                THEN /\ loc' = [loc EXCEPT ![c].ts = gen.ts, ![c].seq = gen.seq]
                     /\ pc' = [pc EXCEPT ![c] = "xadd_insert_wait"]
                     /\ UNCHANGED result
                ELSE /\ pc' = [pc EXCEPT ![c] = "panicked"]
                     /\ loc' = [loc EXCEPT ![c] = NoLoc]
                     /\ UNCHANGED result
        /\ UNCHANGED <<now, frontVars, kvVars, cmd, chanVars, streamVars, listVars>>

\* self.streams.write().await (lines 62 and 87).
XaddInsertAcquire(c) ==
    /\ pc[c] = "xadd_insert_wait"
    /\ CanWrite("streams")
    /\ guards' = AcquireWrite("streams", c)
    /\ pc' = [pc EXCEPT ![c] = "xadd_insert"]
    /\ UNCHANGED <<now, frontVars, kvVars, cmd, loc, result, chanVars, streamVars, listVars>>

\* Lines 63-81 (and 88-106): the entry stored, res the final ID; the guard
\* is dropped at the end of the block.  With an odd number of field and
\* value tokens kv[i + 1] is out of bounds for the last field: the task
\* panics after the stream and the entry were created and the pairs before
\* it inserted, and the guard is dropped by the unwinding.
XaddInsert(c) ==
    /\ pc[c] = "xadd_insert"
    /\ streams' = StreamInsert(streams, cmd[c].key, loc[c].ts, loc[c].seq,
                               cmd[c].kv)
    /\ guards' = Release("streams", c)
    /\ IF Len(cmd[c].kv) % 2 = 1
       THEN /\ pc' = [pc EXCEPT ![c] = "panicked"]
            /\ loc' = [loc EXCEPT ![c] = NoLoc]
            /\ UNCHANGED xlog
       ELSE /\ loc' = [loc EXCEPT ![c].res =
                         BulkString(FormatId(loc[c].ts, loc[c].seq))]
            /\ xlog' = [xlog EXCEPT ![cmd[c].key] =
                         Append(@, [ts |-> loc[c].ts, seq |-> loc[c].seq,
                                    explicit |-> IsExplicitId(cmd[c].id),
                                    before |-> StreamMap(streams, cmd[c].key)])]
            /\ pc' = [pc EXCEPT ![c] = "xadd_notify_wait"]
    /\ UNCHANGED <<now, frontVars, kvVars, cmd, result, chanVars, sblocked, nXadd, listVars>>

\* self.blocked.write().await (line 110).
XaddNotifyAcquire(c) ==
    /\ pc[c] = "xadd_notify_wait"
    /\ CanWrite("sblocked")
    /\ guards' = AcquireWrite("sblocked", c)
    /\ pc' = [pc EXCEPT ![c] = "xadd_notify"]
    /\ UNCHANGED <<now, frontVars, kvVars, cmd, loc, result, chanVars, streamVars, listVars>>

\* Lines 111-120: the first sender of the key's queue is popped and sent
\* to, whatever send returns; xadd returns res.
XaddNotify(c) ==
    LET key == cmd[c].key
        notifiers == sblocked[key]
    IN  /\ pc[c] = "xadd_notify"
        /\ IF key \in DOMAIN sblocked /\ notifiers # <<>>
           THEN /\ woken' = SendTo(Head(notifiers))
                /\ sblocked' = IF Tail(notifiers) = <<>>
                               THEN RemoveKey(sblocked, key)
                               ELSE PutKey(sblocked, key, Tail(notifiers))
           ELSE UNCHANGED <<woken, sblocked>>
        /\ guards' = Release("sblocked", c)
        /\ result' = [result EXCEPT ![c] = loc[c].res]
        /\ loc' = [loc EXCEPT ![c] = NoLoc]
        /\ pc' = [pc EXCEPT ![c] = "reply"]
        /\ UNCHANGED <<now, frontVars, kvVars, cmd, rx, streams, xlog, nXadd, listVars>>

(***************************************************************************)
(* Stream::xrange, Stream::xread and Stream::blocking_xread.               *)
(***************************************************************************)
\* The bounds given to XRANGE.
XrangeBounds == { <<<<"-">>, <<"+">>>>, <<<<"9", "-", "0">>, <<"+">>>> }

\* The lists of (key, from-id) pairs given to XREAD.
XreadKvs == { <<"s", <<"$">>>>, <<"s", <<"0", "-", "0">>>> }

\* The dispatcher calls xrange (src/src/commands.rs:461).
XrangeStart(c, stream_id, start, end) ==
    /\ pc[c] = "idle"
    /\ cmd' = [cmd EXCEPT ![c] = [op |-> "XRANGE", key |-> stream_id,
                                  start |-> start, end |-> end]]
    /\ pc' = [pc EXCEPT ![c] = "xrange_wait"]
    /\ UNCHANGED <<now, frontVars, kvVars, loc, result, guards, chanVars, streamVars, listVars>>

\* self.streams.read().await (line 205).
XrangeAcquire(c) ==
    /\ pc[c] = "xrange_wait"
    /\ CanRead("streams")
    /\ guards' = AcquireRead("streams", c)
    /\ pc' = [pc EXCEPT ![c] = "xrange"]
    /\ UNCHANGED <<now, frontVars, kvVars, cmd, loc, result, chanVars, streamVars, listVars>>

\* Lines 206-263: the reply of XRANGE.
XrangeBody(c) ==
    LET res == xrange(streams, cmd[c].key, cmd[c].start, cmd[c].end)
    IN  /\ pc[c] = "xrange"
        /\ guards' = Release("streams", c)
        /\ IF \E i \in 1..Len(res) : res[i] = PanicEntry
           THEN /\ pc' = [pc EXCEPT ![c] = "panicked"]
                /\ UNCHANGED result
           ELSE /\ pc' = [pc EXCEPT ![c] = "reply"]
                /\ result' = [result EXCEPT ![c] = Array(res)]
        /\ loc' = [loc EXCEPT ![c].snap = xlog[cmd[c].key]]
        /\ UNCHANGED <<now, frontVars, kvVars, cmd, chanVars, streamVars, listVars>>

\* The dispatcher calls xread, or blocking_xread when a timeout was given
\* (src/src/commands.rs:465-482); both start with xread.
XreadStart(c, kv, block) ==
    /\ pc[c] = "idle"
    /\ cmd' = [cmd EXCEPT ![c] = [op |-> "XREAD", key |-> kv[1], kv |-> kv,
                                  block |-> block]]
    /\ loc' = [loc EXCEPT ![c] = NoLoc]
    /\ pc' = [pc EXCEPT ![c] = "xread_wait"]
    /\ UNCHANGED <<now, frontVars, kvVars, result, guards, chanVars, streamVars, listVars>>

\* self.streams.read().await (line 346).
XreadAcquire(c) ==
    /\ pc[c] \in {"xread_wait", "xread_again_wait"}
    /\ CanRead("streams")
    /\ guards' = AcquireRead("streams", c)
    /\ pc' = [pc EXCEPT ![c] = IF pc[c] = "xread_wait" THEN "xread"
                                ELSE "xread_again"]
    /\ UNCHANGED <<now, frontVars, kvVars, cmd, loc, result, chanVars, streamVars, listVars>>

\* xread to its end, and what its caller does with the result: XREAD
\* replies with it; blocking_xread replies with it when it is not empty,
\* else goes on to register a waiter (first call, lines 425-428) or replies
\* null-array (call after the signal, lines 447-452).
XreadBody(c) ==
    LET res == xread(streams, cmd[c].kv)
        panics == \E i \in 1..Len(res) : PanicEntry \in
                      {res[i].entries[j] : j \in 1..Len(res[i].entries)}
    IN  /\ pc[c] \in {"xread", "xread_again"}
        /\ guards' = Release("streams", c)
        /\ IF panics
           THEN /\ pc' = [pc EXCEPT ![c] = "panicked"]
                /\ UNCHANGED result
           ELSE IF ~cmd[c].block \/ res # <<>>
           THEN /\ pc' = [pc EXCEPT ![c] = "reply"]
                /\ result' = [result EXCEPT ![c] = Array(res)]
           ELSE IF pc[c] = "xread"
           THEN /\ pc' = [pc EXCEPT ![c] = "bxread_register_wait"]
                /\ UNCHANGED result
           ELSE /\ pc' = [pc EXCEPT ![c] = "reply"]
                /\ result' = [result EXCEPT ![c] = NullArray]
        /\ UNCHANGED <<now, frontVars, kvVars, cmd, loc, chanVars, streamVars, listVars>>

\* self.blocked.write().await (line 436).
BxreadRegisterAcquire(c) ==
    /\ pc[c] = "bxread_register_wait"
    /\ CanWrite("sblocked")
    /\ guards' = AcquireWrite("sblocked", c)
    /\ pc' = [pc EXCEPT ![c] = "bxread_register"]
    /\ UNCHANGED <<now, frontVars, kvVars, cmd, loc, result, chanVars, streamVars, listVars>>

\* Lines 431-444: the sender of a new channel is pushed at the back of the
\* queue of the first key, the guard is dropped and the task waits.  The
\* task keeps, as history, the XADDs that had succeeded on the key when its
\* wait began.
BxreadRegister(c) ==
    LET stream_key == cmd[c].kv[1]
        tx == FreshChannel(UsedChannels)
        queue == IF stream_key \in DOMAIN sblocked THEN sblocked[stream_key]
                 ELSE <<>>
    IN  /\ pc[c] = "bxread_register"
        /\ sblocked' = PutKey(sblocked, stream_key, Append(queue, tx))
        /\ rx' = [rx EXCEPT ![c] = tx]
        /\ woken' = [woken EXCEPT ![c] = FALSE]
        /\ guards' = Release("sblocked", c)
        /\ pc' = [pc EXCEPT ![c] = "bxread_waiting"]
        /\ loc' = [loc EXCEPT ![c].snap = xlog[stream_key]]
        /\ UNCHANGED <<now, frontVars, kvVars, cmd, result, streams, xlog, nXadd, listVars>>

\* timeout(duration, rx).await is Ok(Ok(_)): the value sent was received
\* (line 445); xread is called again.
BxreadWake(c) ==
    /\ pc[c] = "bxread_waiting"
    /\ woken[c]
    /\ rx' = [rx EXCEPT ![c] = 0]
    /\ woken' = [woken EXCEPT ![c] = FALSE]
    /\ pc' = [pc EXCEPT ![c] = "xread_again_wait"]
    /\ UNCHANGED <<now, frontVars, kvVars, cmd, loc, result, guards, streamVars, listVars>>

\* timeout(duration, rx).await is Err(_): the duration elapsed with no
\* value sent (line 455); the receiver is dropped with the future.
BxreadTimeout(c) ==
    /\ pc[c] = "bxread_waiting"
    /\ ~woken[c]
    /\ rx' = [rx EXCEPT ![c] = 0]
    /\ pc' = [pc EXCEPT ![c] = "bxread_cleanup_wait"]
    /\ UNCHANGED <<now, frontVars, kvVars, cmd, loc, result, guards, woken, streamVars, listVars>>

\* self.blocked.write().await (line 456).
BxreadCleanupAcquire(c) ==
    /\ pc[c] = "bxread_cleanup_wait"
    /\ CanWrite("sblocked")
    /\ guards' = AcquireWrite("sblocked", c)
    /\ pc' = [pc EXCEPT ![c] = "bxread_cleanup"]
    /\ UNCHANGED <<now, frontVars, kvVars, cmd, loc, result, chanVars, streamVars, listVars>>

\* VecDeque::retain(|sender| !sender.is_closed())
RetainOpen(notifiers) ==
    LET open == {i \in 1..Len(notifiers) : ~is_closed(notifiers[i])}
        RECURSIVE Keep(_)
        Keep(i) == IF i > Len(notifiers) THEN <<>>
                   ELSE (IF i \in open THEN <<notifiers[i]>> ELSE <<>>)
                          \o Keep(i + 1)
    IN  Keep(1)

\* Lines 457-463: the closed senders leave the queue of the key, the key
\* leaves the map when its queue is empty; the reply is null-array.
BxreadCleanup(c) ==
    LET stream_key == cmd[c].kv[1]
    IN  /\ pc[c] = "bxread_cleanup"
        /\ sblocked' =
              IF stream_key \in DOMAIN sblocked
              THEN IF RetainOpen(sblocked[stream_key]) = <<>>
                   THEN RemoveKey(sblocked, stream_key)
                   ELSE PutKey(sblocked, stream_key,
                               RetainOpen(sblocked[stream_key]))
              ELSE sblocked
        /\ guards' = Release("sblocked", c)
        /\ result' = [result EXCEPT ![c] = NullArray]
        /\ pc' = [pc EXCEPT ![c] = "reply"]
        /\ UNCHANGED <<now, frontVars, kvVars, cmd, loc, chanVars, streams, xlog, nXadd, listVars>>

\* The connection task sends the reply of handle_command and reads the next
\* frame (src/src/main.rs:125-130).
SendReply(c) ==
    /\ pc[c] = "reply"
    /\ pc' = [pc EXCEPT ![c] = "idle"]
    /\ cmd' = [cmd EXCEPT ![c] = NoCmd]
    /\ loc' = [loc EXCEPT ![c] = NoLoc]
    /\ result' = [result EXCEPT ![c] = NoReply]
    /\ UNCHANGED <<now, frontVars, kvVars, guards, chanVars, streamVars, listVars>>

\* Time passes.
Tick ==
    /\ now < MaxTime
    /\ now' = now + 1
    /\ UNCHANGED <<taskVars, frontVars, kvVars, guards, chanVars, streamVars, listVars>>

(***************************************************************************)
(* The list store (src/src/lists.rs): List::rpush and List::lpush.         *)
(***************************************************************************)
ListKeys == {"K"}

\* The values pushed.
ListValues == {"v", "w"}

\* The counts given to LPOP.
LpopCounts == {0, 1, 2}

\* The smaller of two numbers.
Min(a, b) == IF a < b THEN a ELSE b

\* The deque of a key, empty when the key is absent.
ListOf(ls, key) == IF key \in DOMAIN ls THEN ls[key] ELSE <<>>

\* The history an ongoing BLPOP keeps of what others do to its key: whether
\* the key was absent when the call was issued, the values pushed since
\* (the first two of them), how many of these pushes have returned (up to
\* two) and whether others popped an element since.
NoWatch == [absent |-> FALSE, pushes |-> <<>>, returned |-> 0, pops |-> 0]

\* The locals of a call of the list store: new_len of a push and, as
\* history, the closed senders its loop popped, whether the wait of a BLPOP
\* ended with a signal, and what others did.
ListLoc == [new_len |-> 0, dropped |-> 0, signalled |-> FALSE, watch |-> NoWatch]

\* The task is inside a BLPOP call on key.
InBlpop(c, key) ==
    /\ cmd[c].op = "BLPOP"
    /\ cmd[c].key = key
    /\ pc[c] \notin {"idle", "reply"}

\* The histories of the ongoing BLPOPs on key after client c pushed.
WatchPush(c, key, op, value) ==
    [d \in Tasks |->
        IF d # c /\ InBlpop(d, key)
        THEN [loc[d] EXCEPT !.watch.pushes =
                                IF Len(@) < 2 THEN Append(@, <<op, value>>) ELSE @]
        ELSE loc[d]]

\* The histories of the ongoing BLPOPs on key after the push of client c
\* returned.
WatchReturn(c, key) ==
    [d \in Tasks |->
        IF d # c /\ InBlpop(d, key)
        THEN [loc[d] EXCEPT !.watch.returned = Min(@ + 1, 2)]
        ELSE loc[d]]

\* The histories of the ongoing BLPOPs on key after client c popped n values.
WatchPop(c, key, n) ==
    [d \in Tasks |->
        IF d # c /\ InBlpop(d, key)
        THEN [loc[d] EXCEPT !.watch.pops = Min(@ + n, 1)]
        ELSE loc[d]]

\* The dispatcher calls rpush or lpush with one value
\* (src/src/commands.rs:414-428).
PushStart(c, op, key, value) ==
    /\ pc[c] = "idle"
    /\ Len(ListOf(lists, key)) < MaxLen
    /\ cmd' = [cmd EXCEPT ![c] = [op |-> op, key |-> key, value |-> value]]
    /\ loc' = [loc EXCEPT ![c] = ListLoc]
    /\ pc' = [pc EXCEPT ![c] = "push_data_wait"]
    /\ UNCHANGED <<now, frontVars, kvVars, result, guards, chanVars, streamVars, listVars>>

\* self.lists.write().await (lines 35 and 74).
PushDataAcquire(c) ==
    /\ pc[c] = "push_data_wait"
    /\ CanWrite("lists")
    /\ guards' = AcquireWrite("lists", c)
    /\ pc' = [pc EXCEPT ![c] = "push_data"]
    /\ UNCHANGED <<now, frontVars, kvVars, cmd, loc, result, chanVars, streamVars, listVars>>

\* A mutation of PushMutate: the guard of the lists is kept after the push.
PushMutateKeepsGuard(c) ==
    LET key == cmd[c].key
        list == IF cmd[c].op = "RPUSH"
                THEN Append(ListOf(lists, key), cmd[c].value)
                ELSE <<cmd[c].value>> \o ListOf(lists, key)
    IN  /\ pc[c] = "push_data"
        /\ lists' = PutKey(lists, key, list)
        /\ loc' = [WatchPush(c, key, cmd[c].op, cmd[c].value)
                      EXCEPT ![c].new_len = Len(list)]
        /\ pc' = [pc EXCEPT ![c] = "push_notify_wait"]
        /\ UNCHANGED <<now, frontVars, kvVars, cmd, result, guards, chanVars, streamVars,
                       lblocked>>

\* Lines 36-44 (rpush) and 75-79 (lpush): the value is pushed at the back
\* or at the front of the deque, created when absent; new_len is read and
\* the guard of the lists is dropped.
PushMutate(c) ==
    LET key == cmd[c].key
        list == IF cmd[c].op = "RPUSH"
                THEN Append(ListOf(lists, key), cmd[c].value)
                ELSE <<cmd[c].value>> \o ListOf(lists, key)
    IN  /\ pc[c] = "push_data"
        /\ lists' = PutKey(lists, key, list)
        /\ loc' = [WatchPush(c, key, cmd[c].op, cmd[c].value)
                      EXCEPT ![c].new_len = Len(list)]
        /\ guards' = Release("lists", c)
        /\ pc' = [pc EXCEPT ![c] = "push_notify_wait"]
        /\ UNCHANGED <<now, frontVars, kvVars, cmd, result, chanVars, streamVars, lblocked>>

\* self.blocked.write().await (lines 47 and 82).
PushNotifyAcquire(c) ==
    /\ pc[c] = "push_notify_wait"
    /\ CanWrite("lblocked")
    /\ guards' = AcquireWrite("lblocked", c)
    /\ pc' = [pc EXCEPT ![c] = "push_notify"]
    /\ UNCHANGED <<now, frontVars, kvVars, cmd, loc, result, chanVars, streamVars, listVars>>

\* A mutation of DropClosed: closed senders are not popped.
KeepClosed(notifiers) == notifiers

\* The senders of a queue from the first one whose receiver is alive on.
RECURSIVE DropClosed(_)
DropClosed(notifiers) ==
    IF notifiers = <<>> THEN <<>>
    ELSE IF is_closed(Head(notifiers)) THEN DropClosed(Tail(notifiers))
    ELSE notifiers

\* Lines 48-66 (rpush) and 83-96 (lpush): senders are popped from the
\* front of the key's queue until a send succeeds; the key leaves the map
\* when its queue is empty; the reply is new_len.
PushNotify(c) ==
    LET key == cmd[c].key
        live == DropClosed(lblocked[key])
    IN  /\ pc[c] = "push_notify"
        /\ IF key \in DOMAIN lblocked
           THEN /\ woken' = IF live = <<>> THEN woken ELSE SendTo(Head(live))
                /\ lblocked' = IF live = <<>> \/ Tail(live) = <<>>
                               THEN RemoveKey(lblocked, key)
                               ELSE PutKey(lblocked, key, Tail(live))
           ELSE UNCHANGED <<woken, lblocked>>
        /\ guards' = Release("lblocked", c)
        /\ result' = [result EXCEPT ![c] = Integer(loc[c].new_len)]
        /\ loc' = [WatchReturn(c, key) EXCEPT ![c].dropped =
                      IF key \in DOMAIN lblocked
                      THEN Len(lblocked[key]) - Len(live) ELSE 0]
        /\ pc' = [pc EXCEPT ![c] = "reply"]
        /\ UNCHANGED <<now, frontVars, kvVars, cmd, rx, streamVars, lists>>

(***************************************************************************)
(* List::lrange.                                                           *)
(***************************************************************************)
\* The indices given to LRANGE.
LrangeIndices == -(MaxLen + 1)..(MaxLen + 1)

\* isize::max.
Larger(a, b) == IF a > b THEN a ELSE b

\* Lines 112-145: a negative index counts from the end; start is clamped
\* to 0..len-1 and end to -1..len-1; the elements start..=end, none when
\* start > end or end < 0, or when the key is absent or its deque empty.
lrange(ls, key, start, end) ==
    IF key \notin DOMAIN ls THEN <<>>
    ELSE LET list == ls[key]
             len == Len(list)
             first == IF start < 0 THEN Larger(len + start, 0)
                      ELSE Min(start, len - 1)
             last == IF end < 0 THEN Larger(len + end, -1)
                     ELSE Min(end, len - 1)
         IN  IF len = 0 THEN <<>>
             ELSE IF first > last \/ last < 0 THEN <<>>
             ELSE [i \in 1..(last - first + 1) |-> BulkString(list[first + i])]

\* The dispatcher calls lrange (src/src/commands.rs:430).
LrangeStart(c, key, start, end) ==
    /\ pc[c] = "idle"
    /\ cmd' = [cmd EXCEPT ![c] = [op |-> "LRANGE", key |-> key, start |-> start,
                                  end |-> end]]
    /\ loc' = [loc EXCEPT ![c] = ListLoc]
    /\ pc' = [pc EXCEPT ![c] = "lrange_wait"]
    /\ UNCHANGED <<now, frontVars, kvVars, result, guards, chanVars, streamVars, listVars>>

\* self.lists.read().await (line 112).
LrangeAcquire(c) ==
    /\ pc[c] = "lrange_wait"
    /\ CanRead("lists")
    /\ guards' = AcquireRead("lists", c)
    /\ pc' = [pc EXCEPT ![c] = "lrange"]
    /\ UNCHANGED <<now, frontVars, kvVars, cmd, loc, result, chanVars, streamVars, listVars>>

\* Lines 114-145, and the array the dispatcher makes of the vector.
LrangeBody(c) ==
    /\ pc[c] = "lrange"
    /\ result' = [result EXCEPT ![c] =
                     Array(lrange(lists, cmd[c].key, cmd[c].start, cmd[c].end))]
    /\ guards' = Release("lists", c)
    /\ pc' = [pc EXCEPT ![c] = "reply"]
    /\ UNCHANGED <<now, frontVars, kvVars, cmd, loc, chanVars, streamVars, listVars>>

(***************************************************************************)
(* List::lpop and List::blpop.                                             *)
(***************************************************************************)
\* The dispatcher calls lpop (src/src/commands.rs:436).
LpopStart(c, key, count) ==
    /\ pc[c] = "idle"
    /\ cmd' = [cmd EXCEPT ![c] = [op |-> "LPOP", key |-> key, count |-> count]]
    /\ loc' = [loc EXCEPT ![c] = ListLoc]
    /\ pc' = [pc EXCEPT ![c] = "lpop_wait"]
    /\ UNCHANGED <<now, frontVars, kvVars, result, guards, chanVars, streamVars, listVars>>

\* self.lists.write().await (line 151).
LpopAcquire(c) ==
    /\ pc[c] = "lpop_wait"
    /\ CanWrite("lists")
    /\ guards' = AcquireWrite("lists", c)
    /\ pc' = [pc EXCEPT ![c] = "lpop"]
    /\ UNCHANGED <<now, frontVars, kvVars, cmd, loc, result, chanVars, streamVars, listVars>>

\* A mutation of AfterPop: the key stays in the map with an empty deque.
AfterPopKeepsKey(ls, key, rest) == PutKey(ls, key, rest)

\* A mutation of AfterPop: the key leaves the map whatever is left.
AfterPopDropsRest(ls, key, rest) == RemoveKey(ls, key)

\* What is left of a deque: the key leaves the map with its last element.
AfterPop(ls, key, rest) ==
    IF rest = <<>> THEN RemoveKey(ls, key) ELSE PutKey(ls, key, rest)

\* A mutation of LpopReply: the first element alone whenever there is one.
LpopReplyFirstOnly(v) ==
    IF Len(v) >= 1 THEN BulkString(v[1])
    ELSE Array([i \in 1..Len(v) |-> BulkString(v[i])])

\* The reply the dispatcher makes of Some(v): the element alone when there
\* is one, else the array (src/src/commands.rs:437-443).
LpopReply(v) ==
    IF Len(v) = 1 THEN BulkString(v[1])
    ELSE Array([i \in 1..Len(v) |-> BulkString(v[i])])

\* Lines 153-174: up to count elements leave the front of the deque; None
\* (null bulk) when the key is absent or its deque is empty.
LpopBody(c) ==
    LET key == cmd[c].key
        list == ListOf(lists, key)
        n == Min(cmd[c].count, Len(list))
    IN  /\ pc[c] = "lpop"
        /\ IF key \notin DOMAIN lists \/ list = <<>>
           THEN /\ result' = [result EXCEPT ![c] = NullBulkString]
                /\ UNCHANGED <<lists, loc>>
           ELSE /\ result' = [result EXCEPT ![c] = LpopReply(SubSeq(list, 1, n))]
                /\ lists' = AfterPop(lists, key, SubSeq(list, n + 1, Len(list)))
                /\ loc' = WatchPop(c, key, n)
        /\ guards' = Release("lists", c)
        /\ pc' = [pc EXCEPT ![c] = "reply"]
        /\ UNCHANGED <<now, frontVars, kvVars, cmd, chanVars, streamVars, lblocked>>

\* The dispatcher calls blpop (src/src/commands.rs:447).
BlpopStart(c, key) ==
    /\ pc[c] = "idle"
    /\ Len(ListOf(lblocked, key)) < MaxWaiters
    /\ cmd' = [cmd EXCEPT ![c] = [op |-> "BLPOP", key |-> key]]
    /\ loc' = [loc EXCEPT ![c] =
                  [ListLoc EXCEPT !.watch.absent = key \notin DOMAIN lists]]
    /\ pc' = [pc EXCEPT ![c] = "blpop_check_wait"]
    /\ UNCHANGED <<now, frontVars, kvVars, result, guards, chanVars, streamVars, listVars>>

\* self.lists.write().await (lines 182 and 215).
BlpopDataAcquire(c) ==
    /\ pc[c] \in {"blpop_check_wait", "blpop_retry_wait"}
    /\ CanWrite("lists")
    /\ guards' = AcquireWrite("lists", c)
    /\ pc' = [pc EXCEPT ![c] = IF pc[c] = "blpop_check_wait"
                                THEN "blpop_check" ELSE "blpop_retry"]
    /\ UNCHANGED <<now, frontVars, kvVars, cmd, loc, result, chanVars, streamVars, listVars>>

\* A mutation of BlpopPop: with none to pop, the attempt after the signal
\* goes on to register a waiter again.
BlpopPopWaitsAgain(c) ==
    LET key == cmd[c].key
        list == ListOf(lists, key)
    IN  /\ pc[c] \in {"blpop_check", "blpop_retry"}
        /\ IF list # <<>>
           THEN /\ lists' = AfterPop(lists, key, Tail(list))
                /\ result' = [result EXCEPT ![c] =
                      Array(<<BulkString(key), BulkString(Head(list))>>)]
                /\ loc' = WatchPop(c, key, 1)
                /\ pc' = [pc EXCEPT ![c] = "reply"]
           ELSE /\ UNCHANGED <<lists, loc, result>>
                /\ pc' = [pc EXCEPT ![c] = "blpop_register_wait"]
        /\ guards' = Release("lists", c)
        /\ UNCHANGED <<now, frontVars, kvVars, cmd, chanVars, streamVars, lblocked>>

\* Lines 183-196 and 216-228: the first element is popped and returned in
\* [key, value]; with none to pop, the first attempt goes on to register a
\* waiter and the attempt after the signal replies null-array.
BlpopPop(c) ==
    LET key == cmd[c].key
        list == ListOf(lists, key)
    IN  /\ pc[c] \in {"blpop_check", "blpop_retry"}
        /\ IF list # <<>>
           THEN /\ lists' = AfterPop(lists, key, Tail(list))
                /\ result' = [result EXCEPT ![c] =
                      Array(<<BulkString(key), BulkString(Head(list))>>)]
                /\ loc' = WatchPop(c, key, 1)
                /\ pc' = [pc EXCEPT ![c] = "reply"]
           ELSE /\ UNCHANGED <<lists, loc>>
                /\ IF pc[c] = "blpop_check"
                   THEN /\ pc' = [pc EXCEPT ![c] = "blpop_register_wait"]
                        /\ UNCHANGED result
                   ELSE /\ pc' = [pc EXCEPT ![c] = "reply"]
                        /\ result' = [result EXCEPT ![c] = NullArray]
        /\ guards' = Release("lists", c)
        /\ UNCHANGED <<now, frontVars, kvVars, cmd, chanVars, streamVars, lblocked>>

\* self.blocked.write().await (line 203).
BlpopRegisterAcquire(c) ==
    /\ pc[c] = "blpop_register_wait"
    /\ CanWrite("lblocked")
    /\ guards' = AcquireWrite("lblocked", c)
    /\ pc' = [pc EXCEPT ![c] = "blpop_register"]
    /\ UNCHANGED <<now, frontVars, kvVars, cmd, loc, result, chanVars, streamVars, listVars>>

\* A mutation of BlpopRegister: the task waits with the guard of the waiter
\* map still held.
BlpopRegisterKeepsGuard(c) ==
    LET key == cmd[c].key
        tx == FreshChannel(UsedChannels)
    IN  /\ pc[c] = "blpop_register"
        /\ lblocked' = PutKey(lblocked, key, Append(ListOf(lblocked, key), tx))
        /\ rx' = [rx EXCEPT ![c] = tx]
        /\ woken' = [woken EXCEPT ![c] = FALSE]
        /\ pc' = [pc EXCEPT ![c] = "blpop_waiting"]
        /\ UNCHANGED <<now, frontVars, kvVars, cmd, loc, result, guards, streamVars, lists>>

\* Lines 199-211: the sender of a new channel is pushed at the back of the
\* key's queue, the guard is dropped and the task waits.
BlpopRegister(c) ==
    LET key == cmd[c].key
        tx == FreshChannel(UsedChannels)
    IN  /\ pc[c] = "blpop_register"
        /\ lblocked' = PutKey(lblocked, key, Append(ListOf(lblocked, key), tx))
        /\ rx' = [rx EXCEPT ![c] = tx]
        /\ woken' = [woken EXCEPT ![c] = FALSE]
        /\ guards' = Release("lblocked", c)
        /\ pc' = [pc EXCEPT ![c] = "blpop_waiting"]
        /\ UNCHANGED <<now, frontVars, kvVars, cmd, loc, result, streamVars, lists>>

\* timeout(duration, rx).await is Ok(Ok(_)) (line 213).
BlpopWake(c) ==
    /\ pc[c] = "blpop_waiting"
    /\ woken[c]
    /\ rx' = [rx EXCEPT ![c] = 0]
    /\ woken' = [woken EXCEPT ![c] = FALSE]
    /\ loc' = [loc EXCEPT ![c].signalled = TRUE]
    /\ pc' = [pc EXCEPT ![c] = "blpop_retry_wait"]
    /\ UNCHANGED <<now, frontVars, kvVars, cmd, result, guards, streamVars, listVars>>

\* timeout(duration, rx).await is Err(_): the duration elapsed with no
\* value sent (line 231).  The receiver is dropped; the sender stays in the
\* queue and the reply is null-array.
BlpopTimeout(c) ==
    /\ pc[c] = "blpop_waiting"
    /\ ~woken[c]
    /\ rx' = [rx EXCEPT ![c] = 0]
    /\ result' = [result EXCEPT ![c] = NullArray]
    /\ pc' = [pc EXCEPT ![c] = "reply"]
    /\ UNCHANGED <<now, frontVars, kvVars, cmd, loc, guards, woken, streamVars, listVars>>

(***************************************************************************)
(* The key-value store (src/src/rdb.rs): pure parts.                       *)
(*                                                                         *)
(* KeyValue.entries is a HashMap from keys to Set { value, expiry }: a     *)
(* function from the keys present to records [value, expiry].  An Instant  *)
(* is a number of milliseconds on the clock of the model.                  *)
(***************************************************************************)
\* Option::<Instant>::None.
NoInstant == -1

\* Option::<(Bytes, i64)>::None, the expiry argument of a SET without option;
\* Some((ty, time)) is the pair <<ty, time>>.
NoExpiry == <<>>

\* Duration::from_secs and Duration::from_millis, in milliseconds.
from_secs(n) == n * 1000
from_millis(n) == n

\* time as u64: a negative amount wraps around.
AsU64(time) == IF time >= 0 THEN time ELSE U64Max + 1 + time

\* The number that "-" and the digits s write, added up below zero as
\* parse::<i64> does, so that i64::MIN is reached without overflow.
RECURSIVE NegativeValue(_, _)
NegativeValue(s, acc) ==
    IF s = <<>> THEN acc
    ELSE NegativeValue(Tail(s), acc * 10 - DigitVal(Head(s)))

\* str::parse::<i64>: an optional sign, then one or more decimal digits.
ParseI64(s) ==
    IF s = <<>> THEN [ok |-> FALSE, val |-> 0]
    ELSE LET signed == Head(s) \in {"+", "-"}
             digits == IF signed THEN Tail(s) ELSE s
         IN  IF digits = <<>> \/ \E i \in 1..Len(digits) : ~IsDigit(digits[i])
             THEN [ok |-> FALSE, val |-> 0]
             ELSE [ok |-> TRUE,
                   val |-> IF Head(s) = "-" THEN NegativeValue(digits, 0)
                           ELSE DigitsValue(digits, 0)]

\* i64::MAX and i64::MIN.  The model's integers are narrower than 64 bits:
\* its i64 is as wide as they are, and the decimal digits of I64Max stand
\* for 9223372036854775807.
I64Max == 2147483647
I64Min == (0 - I64Max) - 1

\* The decimal digits of m + 1, for m >= 0: the magnitude of the negative
\* number -(m + 1), computed without leaving the range of i64.
MagnitudeToString(m) ==
    LET last == ((m % 10) + 1) % 10
        rest == (m \div 10) + (IF m % 10 = 9 THEN 1 ELSE 0)
    IN  IF rest = 0 THEN <<Digits[last + 1]>>
        ELSE Append(U64ToString(rest), Digits[last + 1])

\* i64::to_string
I64ToString(n) ==
    IF n < 0 THEN <<"-">> \o MagnitudeToString(0 - (n + 1)) ELSE U64ToString(n)

\* Set { value, expiry }
SetOf(value, expiry) == [value |-> value, expiry |-> expiry]

\* What entries.get(key) finds: the entry, or NoSet for None.
NoSet == [value |-> NoBytes, expiry |-> NoInstant]
EntryOf(ents, key) == IF key \in DOMAIN ents THEN ents[key] ELSE NoSet

\* The deadline insert_entry computes from the expiry argument at instant t:
\* every option counts from Instant::now(), EXAT and PXAT included, and an
\* option it does not know gives a duration of zero.
Deadline(expiry, t) ==
    IF expiry = NoExpiry THEN NoInstant
    ELSE LET ty == expiry[1]
             time == expiry[2]
         IN  CASE ty = <<"E", "X">> -> t + from_secs(AsU64(time))
               [] ty = <<"P", "X">> -> t + from_millis(AsU64(time))
               [] ty = <<"E", "X", "A", "T">> -> t + from_secs(AsU64(time))
               [] ty = <<"P", "X", "A", "T">> -> t + from_millis(AsU64(time))
               [] OTHER -> t + from_secs(0)

\* A mutation of insert_entry: the entry found under the key keeps its
\* deadline.
insert_entry_keeps_deadline(ents, key, value, expiry, t) ==
    PutKey(ents, key, SetOf(value,
        IF key \in DOMAIN ents /\ expiry = NoExpiry
        THEN ents[key].expiry ELSE Deadline(expiry, t)))

\* KeyValue::insert_entry with Instant::now() = t: the map after it.
insert_entry(ents, key, value, expiry, t) ==
    PutKey(ents, key, SetOf(value, Deadline(expiry, t)))

\* A mutation of get_entry: the test of exists(), Instant::now() > expiry.
get_entry_after_deadline(ents, key, t) ==
    IF key \in DOMAIN ents
    THEN IF ents[key].expiry # NoInstant /\ t > ents[key].expiry
         THEN [entries |-> RemoveKey(ents, key), res |-> NoBytes]
         ELSE [entries |-> ents, res |-> ents[key].value]
    ELSE [entries |-> ents, res |-> NoBytes]

\* KeyValue::get_entry with Instant::now() = t: the map after it and the
\* value returned, NoBytes for None.
get_entry(ents, key, t) ==
    IF key \in DOMAIN ents
    THEN IF ents[key].expiry # NoInstant /\ t >= ents[key].expiry
         THEN [entries |-> RemoveKey(ents, key), res |-> NoBytes]
         ELSE [entries |-> ents, res |-> ents[key].value]
    ELSE [entries |-> ents, res |-> NoBytes]

ErrNotInteger == "ERR value is not an integer or out of range"

\* The entry incr creates: "1" with no deadline.
SetOne == SetOf(I64ToString(1), NoInstant)

\* A mutation of incr: the incremented value is returned and not stored.
incr_not_stored(ents, key, t) ==
    IF key \in DOMAIN ents
    THEN IF ents[key].expiry # NoInstant /\ t >= ents[key].expiry
         THEN [entries |-> PutKey(RemoveKey(ents, key), key, SetOne),
               ok |-> TRUE, val |-> 1]
         ELSE LET parsed == ParseI64(ents[key].value)
              IN  IF parsed.ok
                  THEN [entries |-> ents, ok |-> TRUE, val |-> parsed.val + 1]
                  ELSE [entries |-> ents, ok |-> FALSE, val |-> 0]
    ELSE [entries |-> PutKey(ents, key, SetOne), ok |-> TRUE, val |-> 1]

\* val + 1 (line 605) overflows: the entry is there, its deadline has not
\* passed and its value parses as i64::MAX.
IncrOverflows(ents, key, t) ==
    /\ key \in DOMAIN ents
    /\ ~(ents[key].expiry # NoInstant /\ t >= ents[key].expiry)
    /\ ParseI64(ents[key].value).ok
    /\ ParseI64(ents[key].value).val = I64Max

\* incr in a build without overflow checks, when val + 1 overflows: the sum
\* wraps around to i64::MIN, which is stored and returned.
incr_wrapped(ents, key) ==
    [entries |-> [ents EXCEPT ![key].value = I64ToString(I64Min)],
     ok |-> TRUE, val |-> I64Min]

\* A mutation of incr: a value that is not an integer is replaced by 1.
incr_error_resets(ents, key, t) ==
    IF key \in DOMAIN ents
    THEN IF ents[key].expiry # NoInstant /\ t >= ents[key].expiry
         THEN [entries |-> PutKey(RemoveKey(ents, key), key, SetOne),
               ok |-> TRUE, val |-> 1]
         ELSE LET parsed == ParseI64(ents[key].value)
              IN  IF parsed.ok
                  THEN [entries |->
                            [ents EXCEPT ![key].value = I64ToString(parsed.val + 1)],
                        ok |-> TRUE, val |-> parsed.val + 1]
                  ELSE [entries |-> PutKey(ents, key, SetOne), ok |-> FALSE, val |-> 0]
    ELSE [entries |-> PutKey(ents, key, SetOne), ok |-> TRUE, val |-> 1]

\* A mutation of incr: the entry is written anew, without its deadline.
incr_drops_deadline(ents, key, t) ==
    IF key \in DOMAIN ents
    THEN IF ents[key].expiry # NoInstant /\ t >= ents[key].expiry
         THEN [entries |-> PutKey(RemoveKey(ents, key), key, SetOne),
               ok |-> TRUE, val |-> 1]
         ELSE LET parsed == ParseI64(ents[key].value)
              IN  IF parsed.ok
                  THEN [entries |->
                            PutKey(ents, key,
                                   SetOf(I64ToString(parsed.val + 1), NoInstant)),
                        ok |-> TRUE, val |-> parsed.val + 1]
                  ELSE [entries |-> ents, ok |-> FALSE, val |-> 0]
    ELSE [entries |-> PutKey(ents, key, SetOne), ok |-> TRUE, val |-> 1]

\* KeyValue::incr with Instant::now() = t: the map after it and Ok(val) or
\* Err, when val + 1 does not overflow.
incr(ents, key, t) ==
    IF key \in DOMAIN ents
    THEN IF ents[key].expiry # NoInstant /\ t >= ents[key].expiry
         THEN [entries |-> PutKey(RemoveKey(ents, key), key, SetOne),
               ok |-> TRUE, val |-> 1]
         ELSE LET parsed == ParseI64(ents[key].value)
              IN  IF parsed.ok
                  THEN [entries |->
                            [ents EXCEPT ![key].value = I64ToString(parsed.val + 1)],
                        ok |-> TRUE, val |-> parsed.val + 1]
                  ELSE [entries |-> ents, ok |-> FALSE, val |-> 0]
    ELSE [entries |-> PutKey(ents, key, SetOne), ok |-> TRUE, val |-> 1]

\* The loop of match_pattern_recursive over a bracket expression, after its
\* "[" and "^": ok is FALSE when the pattern ends before "]".
RECURSIVE ClassScan(_, _, _, _)
ClassScan(p, key_char, chars_in_bracket, matched) ==
    IF p = <<>> THEN [ok |-> FALSE, rest |-> <<>>, matched |-> FALSE]
    ELSE IF Head(p) = "]" THEN [ok |-> TRUE, rest |-> Tail(p), matched |-> matched]
    ELSE IF Head(p) = "-" /\ chars_in_bracket # <<>>
    THEN IF Len(p) >= 2 /\ p[2] # "]"
         THEN LET start == chars_in_bracket[Len(chars_in_bracket)]
                  end == p[2]
              IN  ClassScan(SubSeq(p, 3, Len(p)), key_char,
                            SubSeq(chars_in_bracket, 1, Len(chars_in_bracket) - 1),
                            matched \/ (/\ Ord(key_char) >= Ord(start)
                                        /\ Ord(key_char) <= Ord(end)))
         ELSE ClassScan(Tail(p), key_char, chars_in_bracket, matched)
    ELSE ClassScan(Tail(p), key_char, Append(chars_in_bracket, Head(p)),
                   matched \/ Head(p) = key_char)

\* KeyValue::match_pattern_recursive: glob matching with "*", "?", bracket
\* expressions and "\" escapes.
RECURSIVE match_pattern_recursive(_, _)
match_pattern_recursive(pattern, key) ==
    IF pattern = <<>> THEN key = <<>>
    ELSE IF Head(pattern) = "*"
    THEN \/ Tail(pattern) = <<>>
         \/ \E i \in 0..Len(key) :
                match_pattern_recursive(Tail(pattern), SubSeq(key, i + 1, Len(key)))
    ELSE IF Head(pattern) = "?"
    THEN key # <<>> /\ match_pattern_recursive(Tail(pattern), Tail(key))
    ELSE IF Head(pattern) = "["
    THEN /\ key # <<>>
         /\ LET negate == Len(pattern) >= 2 /\ pattern[2] = "^"
                body == IF negate THEN SubSeq(pattern, 3, Len(pattern))
                        ELSE Tail(pattern)
                scan == ClassScan(body, Head(key), <<>>, FALSE)
            IN  /\ scan.ok
                /\ (IF negate THEN ~scan.matched ELSE scan.matched)
                /\ match_pattern_recursive(scan.rest, Tail(key))
    ELSE IF Head(pattern) = "\\"
    THEN /\ Len(pattern) >= 2
         /\ key # <<>>
         /\ pattern[2] = Head(key)
         /\ match_pattern_recursive(SubSeq(pattern, 3, Len(pattern)), Tail(key))
    ELSE /\ key # <<>>
         /\ Head(pattern) = Head(key)
         /\ match_pattern_recursive(Tail(pattern), Tail(key))

\* KeyValue::match_pattern
match_pattern(pattern, key) == match_pattern_recursive(pattern, key)

\* The keys that keys() keeps at instant t: not expired, and matching.
KeptKeys(ents, pattern, t) ==
    { k \in DOMAIN ents :
        /\ ~(ents[k].expiry # NoInstant /\ t >= ents[k].expiry)
        /\ match_pattern(pattern, k) }

\* The orders in which a HashMap may iterate over a set of keys.
Orders(S) ==
    { o \in [1..Cardinality(S) -> S] :
        \A i, j \in 1..Cardinality(S) : i # j => o[i] # o[j] }

\* KeyValue::keys with Instant::now() = t: the replies it may give, one for
\* every order of iteration of the map.
keys(ents, pattern, t) ==
    { Array([i \in 1..Len(o) |-> BulkString(o[i])]) :
        o \in Orders(KeptKeys(ents, pattern, t)) }

(***************************************************************************)
(* The key-value store: SET, GET, INCR and KEYS.                           *)
(***************************************************************************)
KvKeys == { <<"k">> }

\* The values given to SET.
KvValues == { <<"7">>, <<"x">> }

\* The expiry options given to SET: none and PX 1.
KvExpiries == { NoExpiry, <<<<"P", "X">>, 1>> }

\* The patterns given to KEYS: one that matches the key, one that does not.
KvPatterns == { <<"*">>, <<"j">> }

\* The history of a key: the value of the last SET without option if nothing
\* wrote to the key since (else NoBytes), the deadline that SET replaced,
\* whether only INCR wrote to the key since the server started, and the
\* values these INCRs returned, with the clients they returned them to; due
\* is the Unix time in milliseconds that the last SET named with EXAT or
\* PXAT, if the entry it wrote was not replaced since.
NoHistory ==
    [set |-> NoBytes, had |-> NoInstant, fresh |-> TRUE, incrs |-> <<>>,
     due |-> NoInstant]

\* The Unix time in milliseconds an EXAT or PXAT option names.
Named(expiry) ==
    IF expiry = NoExpiry THEN NoInstant
    ELSE CASE expiry[1] = <<"E", "X", "A", "T">> -> from_secs(expiry[2])
           [] expiry[1] = <<"P", "X", "A", "T">> -> from_millis(expiry[2])
           [] OTHER -> NoInstant

\* What a call found under a key at instant t: nothing, an entry at or past
\* its deadline, or an entry with no deadline or with a later one.
Met(ents, key, t) ==
    IF key \notin DOMAIN ents THEN "absent"
    ELSE IF ents[key].expiry # NoInstant /\ ents[key].expiry <= t THEN "expired"
    ELSE "live"

\* The locals of a call of the key-value store, with the history of the
\* call: what it found under its key (KEYS: "expired" when some entry of
\* the map was), the value of the last SET without option on its key if
\* nothing wrote to the key since, and whether that SET replaced a deadline
\* that had passed when the call read the clock.
KvLoc == [met |-> "none", set |-> NoBytes, late |-> FALSE]

\* The dispatcher parses SET key value [option amount]
\* (src/src/commands.rs:85-112) and calls insert_entry.
SetStart(c, key, value, expiry) ==
    /\ pc[c] = "idle"
    /\ nSet < MaxSet
    /\ nSet' = nSet + 1
    /\ pc' = [pc EXCEPT ![c] = "set_wait"]
    /\ cmd' = [cmd EXCEPT ![c] =
                 [op |-> "SET", key |-> key, value |-> value, expiry |-> expiry]]
    /\ loc' = [loc EXCEPT ![c] = KvLoc]
    /\ UNCHANGED <<now, frontVars, result, guards, chanVars, streamVars, listVars,
                   entries, klog, nIncr>>

\* insert_entry from self.entries.write().await (line 504) to its end: the
\* guard is granted when nobody holds it and is held, with no other await,
\* until the call returns; then the reply OK of the dispatcher
\* (src/src/commands.rs:404-407).
SetBody(c) ==
    LET key == cmd[c].key
        after == insert_entry(entries, key, cmd[c].value, cmd[c].expiry, now)
    IN  /\ pc[c] = "set_wait"
        /\ CanWrite("entries")
        /\ entries' = after
        /\ klog' = [klog EXCEPT ![key] =
                      [set |-> IF cmd[c].expiry = NoExpiry
                               THEN cmd[c].value ELSE NoBytes,
                       had |-> IF cmd[c].expiry = NoExpiry
                               THEN EntryOf(entries, key).expiry ELSE NoInstant,
                       fresh |-> FALSE,
                       incrs |-> @.incrs,
                       due |-> Named(cmd[c].expiry)]]
        /\ loc' = [loc EXCEPT ![c].met = Met(entries, key, now)]
        /\ result' = [result EXCEPT ![c] = SimpleString(<<"O", "K">>)]
        /\ pc' = [pc EXCEPT ![c] = "reply"]
        /\ UNCHANGED <<now, frontVars, cmd, guards, chanVars, streamVars, listVars, nIncr, nSet>>

\* The dispatcher calls get_entry (src/src/commands.rs:409).
GetStart(c, key) ==
    /\ pc[c] = "idle"
    /\ pc' = [pc EXCEPT ![c] = "get_wait"]
    /\ cmd' = [cmd EXCEPT ![c] = [op |-> "GET", key |-> key]]
    /\ loc' = [loc EXCEPT ![c] = KvLoc]
    /\ UNCHANGED <<now, frontVars, result, guards, chanVars, streamVars, listVars, kvVars>>

\* get_entry from self.entries.write().await (line 550) to its end, under
\* the guard; then the reply of the dispatcher: the value in a bulk string,
\* null bulk for None (src/src/commands.rs:409-412).
GetBody(c) ==
    LET got == get_entry(entries, cmd[c].key, now)
    IN  /\ pc[c] = "get_wait"
        /\ CanWrite("entries")
        /\ entries' = got.entries
        /\ loc' = [loc EXCEPT ![c] =
                     [met |-> Met(entries, cmd[c].key, now),
                      set |-> klog[cmd[c].key].set,
                      late |-> /\ klog[cmd[c].key].had # NoInstant
                               /\ klog[cmd[c].key].had <= now]]
        /\ result' = [result EXCEPT ![c] =
                        IF got.res = NoBytes THEN NullBulkString
                        ELSE BulkString(got.res)]
        /\ pc' = [pc EXCEPT ![c] = "reply"]
        /\ UNCHANGED <<now, frontVars, cmd, guards, chanVars, streamVars, listVars, klog,
                       nIncr, nSet>>

\* The dispatcher calls incr (src/src/commands.rs:502).
IncrStart(c, key) ==
    /\ pc[c] = "idle"
    /\ nIncr < MaxIncr
    /\ nIncr' = nIncr + 1
    /\ pc' = [pc EXCEPT ![c] = "incr_wait"]
    /\ cmd' = [cmd EXCEPT ![c] = [op |-> "INCR", key |-> key]]
    /\ loc' = [loc EXCEPT ![c] = KvLoc]
    /\ UNCHANGED <<now, frontVars, result, guards, chanVars, streamVars, listVars,
                   entries, klog, nSet>>

\* incr from self.entries.write().await (line 584) to its end, under the
\* guard; then the reply of the dispatcher: the integer, or the error
\* (src/src/commands.rs:502-505).  When val + 1 overflows, the build
\* decides: the sum wraps around, or the task panics and its guard is
\* dropped with nothing written.
IncrBody(c) ==
    LET key == cmd[c].key
        overflows == IncrOverflows(entries, key, now)
        r == IF overflows THEN incr_wrapped(entries, key)
             ELSE incr(entries, key, now)
    IN  /\ pc[c] = "incr_wait"
        /\ CanWrite("entries")
        /\ \/ /\ entries' = r.entries
              /\ klog' = [klog EXCEPT ![key] =
                            IF r.ok
                            THEN [set |-> NoBytes,
                                  had |-> NoInstant,
                                  fresh |-> @.fresh,
                                  incrs |-> IF @.fresh
                                            THEN Append(@.incrs, [by |-> c, val |-> r.val])
                                            ELSE @.incrs,
                                  due |-> IF Met(entries, key, now) = "expired"
                                          THEN NoInstant ELSE @.due]
                            ELSE @]
              /\ result' = [result EXCEPT ![c] =
                              IF r.ok THEN Integer(r.val) ELSE Error(ErrNotInteger)]
              /\ pc' = [pc EXCEPT ![c] = "reply"]
           \/ /\ overflows
              /\ pc' = [pc EXCEPT ![c] = "panicked"]
              /\ UNCHANGED <<entries, klog, result>>
        /\ loc' = [loc EXCEPT ![c].met = Met(entries, key, now)]
        /\ UNCHANGED <<now, frontVars, cmd, guards, chanVars, streamVars, listVars, nIncr, nSet>>

\* The dispatcher calls keys (src/src/commands.rs:507).
KeysStart(c, pattern) ==
    /\ pc[c] = "idle"
    /\ pc' = [pc EXCEPT ![c] = "keys_wait"]
    /\ cmd' = [cmd EXCEPT ![c] = [op |-> "KEYS", pattern |-> pattern]]
    /\ loc' = [loc EXCEPT ![c] = KvLoc]
    /\ UNCHANGED <<now, frontVars, result, guards, chanVars, streamVars, listVars, kvVars>>

\* keys from self.entries.read().await (line 623) to its end, under the
\* guard, which is granted when no writer holds it: the reply of KEYS.
KeysBody(c) ==
    /\ pc[c] = "keys_wait"
    /\ CanRead("entries")
    /\ \E reply \in keys(entries, cmd[c].pattern, now) :
          result' = [result EXCEPT ![c] = reply]
    /\ loc' = [loc EXCEPT ![c].met =
                 IF \E k \in DOMAIN entries : Met(entries, k, now) = "expired"
                 THEN "expired" ELSE "live"]
    /\ pc' = [pc EXCEPT ![c] = "reply"]
    /\ UNCHANGED <<now, frontVars, cmd, guards, chanVars, streamVars, listVars, kvVars>>

(***************************************************************************)
(* The transactions of the clients (src/src/transactions.rs).  tr maps an  *)
(* address to its TransactionState: some says transaction_queue is Some,   *)
(* q is the queue (empty when transaction_queue is None).                  *)
(***************************************************************************)
ErrNested == "ERR MULTI calls can not be nested"
ErrExecWithoutMulti == "ERR EXEC without MULTI"
ErrDiscardWithoutMulti == "ERR DISCARD without MULTI"
ErrExpectedArray == "ERR expected array"

\* TransactionState::new
NewState == [some |-> FALSE, q |-> <<>>]

\* clients.entry(addr).or_insert_with(TransactionState::new)
OrInsert(t, addr) == IF addr \in DOMAIN t THEN t ELSE PutKey(t, addr, NewState)

\* A mutation of start_transaction: the nested MULTI starts the queue anew.
start_transaction_anew(t, addr) ==
    LET clients == OrInsert(t, addr)
    IN  [tr |-> [clients EXCEPT ![addr] = [some |-> TRUE, q |-> <<>>]],
         reply |-> IF clients[addr].some THEN Error(ErrNested)
                   ELSE SimpleString(<<"O", "K">>)]

\* Transaction::start_transaction: the map after the call and the reply.
start_transaction(t, addr) ==
    LET clients == OrInsert(t, addr)
    IN  IF clients[addr].some
        THEN [tr |-> clients, reply |-> Error(ErrNested)]
        ELSE [tr |-> [clients EXCEPT ![addr] = [some |-> TRUE, q |-> <<>>]],
              reply |-> SimpleString(<<"O", "K">>)]

\* A mutation of in_transaction: true while any client has a queue.
in_transaction_of_any(t, addr) == \E a \in DOMAIN t : t[a].some

\* Transaction::in_transaction
in_transaction(t, addr) == addr \in DOMAIN t /\ t[addr].some

\* A mutation of queue_command: push_front for push_back.
queue_command_in_front(t, addr, command) ==
    LET clients == OrInsert(t, addr)
    IN  IF clients[addr].some
        THEN [tr |-> [clients EXCEPT ![addr].q = <<command>> \o @],
              reply |-> SimpleString(<<"Q", "U", "E", "U", "E", "D">>)]
        ELSE [tr |-> clients, reply |-> Error(ErrExecWithoutMulti)]

\* Transaction::queue_command: the map after the call and the reply.
queue_command(t, addr, command) ==
    LET clients == OrInsert(t, addr)
    IN  IF clients[addr].some
        THEN [tr |-> [clients EXCEPT ![addr].q = Append(@, command)],
              reply |-> SimpleString(<<"Q", "U", "E", "U", "E", "D">>)]
        ELSE [tr |-> clients, reply |-> Error(ErrExecWithoutMulti)]

\* A mutation of discard_transaction: the queue is emptied and stays Some.
discard_transaction_stays(t, addr) ==
    IF addr \in DOMAIN t
    THEN IF ~t[addr].some
         THEN [tr |-> t, reply |-> Error(ErrDiscardWithoutMulti)]
         ELSE [tr |-> [t EXCEPT ![addr] = [some |-> TRUE, q |-> <<>>]],
               reply |-> SimpleString(<<"O", "K">>)]
    ELSE [tr |-> t, reply |-> Error(ErrDiscardWithoutMulti)]

\* Transaction::discard_transaction: the map after the call and the reply.
discard_transaction(t, addr) ==
    IF addr \in DOMAIN t
    THEN IF ~t[addr].some
         THEN [tr |-> t, reply |-> Error(ErrDiscardWithoutMulti)]
         ELSE [tr |-> [t EXCEPT ![addr] = NewState],
               reply |-> SimpleString(<<"O", "K">>)]
    ELSE [tr |-> t, reply |-> Error(ErrDiscardWithoutMulti)]

\* Transaction::exec_transaction: the map after the call and the Option it
\* returns (some, q): transaction_queue.take() leaves None behind.
exec_transaction(t, addr) ==
    IF addr \in DOMAIN t /\ t[addr].some
    THEN [tr |-> [t EXCEPT ![addr] = NewState], some |-> TRUE, q |-> t[addr].q]
    ELSE [tr |-> t, some |-> FALSE, q |-> <<>>]

(***************************************************************************)
(* The commands (src/src/commands.rs): parse_command.                      *)
(***************************************************************************)
Upper ==
    << "A", "B", "C", "D", "E", "F", "G", "H", "I", "J", "K", "L", "M",
       "N", "O", "P", "Q", "R", "S", "T", "U", "V", "W", "X", "Y", "Z" >>

\* str::to_uppercase on ASCII text.
to_uppercase(s) ==
    [i \in 1..Len(s) |->
        IF IsLower(s[i]) THEN Upper[CHOOSE j \in 1..26 : Lower[j] = s[i]] ELSE s[i]]

\* str::parse::<f64> on the texts the model sends: an optional sign and
\* decimal digits give their value; a text with a character that no float
\* literal has (the model sends "x") is an Err.
ParseF64(s) == ParseI64(s)

\* What parse_command returns: Some(command), None, or a panic of the task.
Parsed(command) == [kind |-> "Some", cmd |-> command]
NotParsed == [kind |-> "None", cmd |-> NoCmd]
ParsePanic == [kind |-> "Panic", cmd |-> NoCmd]

\* arr.get(i) is Some(RedisValueRef::String(_)), i counted from 0.
IsString(arr, i) == i < Len(arr) /\ arr[i + 1].t = "String"

\* The bytes of arr[i], i counted from 0.
Arg(arr, i) == arr[i + 1].v

\* The loops that collect arr[from..] and return None at a non-string.
RestAreStrings(arr, from) == \A j \in (from + 1)..Len(arr) : arr[j].t = "String"
Rest(arr, from) == [j \in 1..(Len(arr) - from) |-> arr[from + j].v]

\* The loop of XREAD: for i in start..start+n, arr[i] and arr[n + i].
XreadPairsAreStrings(arr, start, n) ==
    \A i \in start..(start + n - 1) : arr[i + 1].t = "String" /\ arr[n + i + 1].t = "String"
XreadPairs(arr, start, n) ==
    [j \in 1..(2 * n) |->
        IF j % 2 = 1 THEN arr[start + ((j - 1) \div 2) + 1].v
        ELSE arr[n + start + (j \div 2)].v]

parse_set(arr) ==
    IF Len(arr) >= 3
    THEN IF arr[2].t # "String" \/ arr[3].t # "String" THEN NotParsed
         ELSE IF Len(arr) = 5 /\ arr[4].t = "String" /\ arr[5].t = "String"
         THEN LET i == ParseI64(arr[5].v)
              IN  IF ~i.ok THEN ParsePanic
                  ELSE Parsed([op |-> "SET", key |-> arr[2].v, value |-> arr[3].v,
                               expiry |-> <<arr[4].v, i.val>>])
         ELSE Parsed([op |-> "SET", key |-> arr[2].v, value |-> arr[3].v,
                      expiry |-> NoExpiry])
    ELSE NotParsed

parse_push(name, arr) ==
    IF IsString(arr, 1)
    THEN IF RestAreStrings(arr, 2)
         THEN Parsed([op |-> name, key |-> Arg(arr, 1), values |-> Rest(arr, 2)])
         ELSE NotParsed
    ELSE NotParsed

parse_lrange(arr) ==
    IF Len(arr) = 4
    THEN IF arr[2].t = "String" /\ arr[3].t = "String" /\ arr[4].t = "String"
         THEN LET start == ParseI64(arr[3].v)
                  end == ParseI64(arr[4].v)
              IN  IF ~start.ok \/ ~end.ok THEN ParsePanic
                  ELSE Parsed([op |-> "LRANGE", key |-> arr[2].v,
                               start |-> start.val, end |-> end.val])
         ELSE NotParsed
    ELSE NotParsed

parse_lpop(arr) ==
    IF IsString(arr, 1)
    THEN IF Len(arr) = 3
         THEN IF arr[3].t = "String"
              THEN LET count == ParseU64(arr[3].v)
                   IN  IF count = ParseFail THEN ParsePanic
                       ELSE Parsed([op |-> "LPOP", key |-> Arg(arr, 1), count |-> count])
              ELSE NotParsed
         ELSE Parsed([op |-> "LPOP", key |-> Arg(arr, 1), count |-> 1])
    ELSE NotParsed

\* Duration::from_secs_f64 panics on a negative number.
parse_blpop(arr) ==
    IF IsString(arr, 1)
    THEN IF Len(arr) < 3 \/ arr[3].t # "String" THEN NotParsed
         ELSE LET duration_f64 == ParseF64(arr[3].v)
              IN  IF ~duration_f64.ok \/ duration_f64.val < 0 THEN ParsePanic
                  ELSE Parsed([op |-> "BLPOP", key |-> Arg(arr, 1),
                               timeout |-> from_secs(IF duration_f64.val = 0 THEN 86400
                                                     ELSE duration_f64.val)])
    ELSE NotParsed

parse_xadd(arr) ==
    IF IsString(arr, 1)
    THEN IF Len(arr) >= 3
         THEN IF arr[3].t = "String"
              THEN IF RestAreStrings(arr, 3)
                   THEN Parsed([op |-> "XADD", key |-> Arg(arr, 1), id |-> arr[3].v,
                                kv |-> Rest(arr, 3)])
                   ELSE NotParsed
              ELSE NotParsed
         ELSE NotParsed
    ELSE NotParsed

\* arr.len() - start underflows when "block" and its duration are the last
\* arguments: a panic on overflow, or an index out of bounds after the
\* wrap-around.
parse_xread(arr) ==
    IF IsString(arr, 1)
    THEN LET to_block == Arg(arr, 1)
             start == IF to_block = <<"b", "l", "o", "c", "k">> THEN 4 ELSE 2
             duration_u64 == IF Len(arr) >= 3 THEN ParseU64(arr[3].v) ELSE ParseFail
             n == (Len(arr) - start) \div 2
         IN  IF start = 4 /\ (Len(arr) < 3 \/ arr[3].t # "String") THEN NotParsed
             ELSE IF start = 4 /\ duration_u64 = ParseFail THEN ParsePanic
             ELSE IF Len(arr) < start THEN ParsePanic
             ELSE IF ~XreadPairsAreStrings(arr, start, n) THEN NotParsed
             ELSE Parsed([op |-> "XREAD", to_block |-> to_block,
                          timeout |-> IF start = 4
                                      THEN from_millis(IF duration_u64 = 0 THEN 86400
                                                       ELSE duration_u64)
                                      ELSE NoInstant,
                          key_stream_start |-> XreadPairs(arr, start, n)])
    ELSE NotParsed

parse_config(arr) ==
    IF IsString(arr, 2)
    THEN Parsed([op |-> "CONFIG", dir |-> Arg(arr, 2) = <<"d", "i", "r">>,
                 dbfilename |-> Arg(arr, 2) =
                     <<"d", "b", "f", "i", "l", "e", "n", "a", "m", "e">>])
    ELSE NotParsed

\* The commands of one key: Some when arr.get(1) is a string.
parse_key(name, arr) ==
    IF IsString(arr, 1) THEN Parsed([op |-> name, key |-> Arg(arr, 1)]) ELSE NotParsed

\* parse_command: arr is the vector of the frame's array.
parse_command(arr) ==
    IF ~IsString(arr, 0) THEN NotParsed
    ELSE LET cmd_name == to_uppercase(Arg(arr, 0))
         IN  CASE cmd_name = <<"P", "I", "N", "G">> -> Parsed([op |-> "PING"])
               [] cmd_name = <<"E", "C", "H", "O">> ->
                      IF IsString(arr, 1) THEN Parsed([op |-> "ECHO", msg |-> Arg(arr, 1)])
                      ELSE NotParsed
               [] cmd_name = <<"S", "E", "T">> -> parse_set(arr)
               [] cmd_name = <<"G", "E", "T">> -> parse_key("GET", arr)
               [] cmd_name = <<"R", "P", "U", "S", "H">> -> parse_push("RPUSH", arr)
               [] cmd_name = <<"L", "R", "A", "N", "G", "E">> -> parse_lrange(arr)
               [] cmd_name = <<"L", "P", "U", "S", "H">> -> parse_push("LPUSH", arr)
               [] cmd_name = <<"L", "L", "E", "N">> -> parse_key("LLEN", arr)
               [] cmd_name = <<"L", "P", "O", "P">> -> parse_lpop(arr)
               [] cmd_name = <<"B", "L", "P", "O", "P">> -> parse_blpop(arr)
               [] cmd_name = <<"T", "Y", "P", "E">> -> parse_key("TYPE", arr)
               [] cmd_name = <<"X", "A", "D", "D">> -> parse_xadd(arr)
               [] cmd_name = <<"X", "R", "A", "N", "G", "E">> ->
                      IF Len(arr) = 4
                      THEN IF arr[2].t = "String" /\ arr[3].t = "String"
                              /\ arr[4].t = "String"
                           THEN Parsed([op |-> "XRANGE", key |-> arr[2].v,
                                        start |-> arr[3].v, end |-> arr[4].v])
                           ELSE NotParsed
                      ELSE NotParsed
               [] cmd_name = <<"X", "R", "E", "A", "D">> -> parse_xread(arr)
               [] cmd_name = <<"I", "N", "C", "R">> -> parse_key("INCR", arr)
               [] cmd_name = <<"C", "O", "N", "F", "I", "G">> -> parse_config(arr)
               [] cmd_name = <<"K", "E", "Y", "S">> -> parse_key("KEYS", arr)
               [] cmd_name = <<"I", "N", "F", "O">> -> parse_key("INFO", arr)
               [] cmd_name = <<"R", "E", "P", "L", "C", "O", "N", "F">> ->
                      IF IsString(arr, 2) THEN Parsed([op |-> "REPLCONF", key |-> Arg(arr, 2)])
                      ELSE NotParsed
               [] cmd_name = <<"M", "U", "L", "T", "I">> -> Parsed([op |-> "MULTI"])
               [] cmd_name = <<"E", "X", "E", "C">> -> Parsed([op |-> "EXEC"])
               [] cmd_name = <<"D", "I", "S", "C", "A", "R", "D">> -> Parsed([op |-> "DISCARD"])
               [] OTHER -> NotParsed

(***************************************************************************)
(* The commands (src/src/commands.rs): execute_command for the commands    *)
(* that need one call of the key-value store or none.  The list and stream *)
(* commands, TYPE, KEYS and INFO are executed by the actions of their      *)
(* stores above.                                                           *)
(***************************************************************************)
\* RdbPath::new: no RDB file was loaded.
RdbPath == [dir |-> <<>>, dbfilename |-> <<>>]

ExecOps == {"PING", "ECHO", "SET", "GET", "CONFIG", "INCR", "REPLCONF",
            "MULTI", "EXEC", "DISCARD"}

\* The commands of ExecOps that take the guard of KeyValue.entries.
KvOps == {"SET", "GET", "INCR"}

\* execute_command at instant t: the entries after it and Some(reply), or
\* NoReply for None.
execute_command(command, ents, t) ==
    CASE command.op = "PING" ->
             [entries |-> ents, reply |-> SimpleString(<<"P", "O", "N", "G">>)]
      [] command.op = "ECHO" ->
             [entries |-> ents, reply |-> SimpleString(command.msg)]
      [] command.op = "SET" ->
             [entries |-> insert_entry(ents, command.key, command.value,
                                       command.expiry, t),
              reply |-> SimpleString(<<"O", "K">>)]
      [] command.op = "GET" ->
             LET got == get_entry(ents, command.key, t)
             IN  [entries |-> got.entries,
                  reply |-> IF got.res = NoBytes THEN NullBulkString
                            ELSE BulkString(got.res)]
      [] command.op = "CONFIG" ->
             [entries |-> ents,
              reply |-> IF command.dir
                        THEN Array(<<BulkString(<<"d", "i", "r">>),
                                     BulkString(RdbPath.dir)>>)
                        ELSE IF command.dbfilename
                        THEN Array(<<BulkString(<<"d", "b", "f", "i", "l", "e",
                                                  "n", "a", "m", "e">>),
                                     BulkString(RdbPath.dbfilename)>>)
                        ELSE NoReply]
      [] command.op = "INCR" ->
             LET r == incr(ents, command.key, t)
             IN  [entries |-> r.entries,
                  reply |-> IF r.ok THEN Integer(r.val) ELSE Error(ErrNotInteger)]
      [] command.op = "REPLCONF" ->
             [entries |-> ents, reply |-> SimpleString(<<"O", "K">>)]
      [] command.op \in {"MULTI", "EXEC", "DISCARD"} ->
             [entries |-> ents, reply |-> NoReply]

(***************************************************************************)
(* A connection (src/src/main.rs:106-137) and handle_command               *)
(* (src/src/commands.rs:518-560).                                          *)
(***************************************************************************)
\* At most MaxFrames frames are received in one behaviour.
MaxFrames == 4

\* conn[c]: the frames read from the connection of c and the replies sent.
NoTraffic == [frames |-> 0, replies |-> 0]

\* The locals of EXEC: the queue taken, the index of the next command, the
\* vector results, and, as history, what each execute_command returned.
ExecLoc(q) == [cmds |-> q, i |-> 0, results |-> <<>>, each |-> <<>>]

\* History of handle_command: the frame it was called with.
FrameLoc(value) == [frame |-> value]

\* History of DISCARD: the queue the call found.
DiscardLoc(q) == [dropped |-> q]

\* framed.next() yields value and handle_command runs up to its first
\* await: a value that is not an array is answered at once, a vector that
\* parse_command refuses ends handle_command with None (nothing is sent),
\* and a panic in parse_command ends the task of the connection.
Receive(c, value) ==
    LET parsed == IF value.t = "Array" THEN parse_command(value.v) ELSE NotParsed
    IN  /\ pc[c] = "idle"
        /\ nFrames < MaxFrames
        /\ parsed.kind = "Some" => parsed.cmd.op \in ExecOps
        /\ nFrames' = nFrames + 1
        /\ conn' = [conn EXCEPT ![c].frames = @ + 1]
        /\ cmd' = [cmd EXCEPT ![c] = parsed.cmd]
        /\ loc' = [loc EXCEPT ![c] = FrameLoc(value)]
        /\ IF value.t # "Array"
           THEN /\ result' = [result EXCEPT ![c] = Error(ErrExpectedArray)]
                /\ pc' = [pc EXCEPT ![c] = "respond"]
           ELSE /\ UNCHANGED result
                /\ pc' = [pc EXCEPT ![c] =
                            CASE parsed.kind = "Panic" -> "panicked"
                              [] parsed.kind = "None" -> "idle"
                              [] parsed.cmd.op = "MULTI" -> "multi"
                              [] parsed.cmd.op = "EXEC" -> "exec"
                              [] parsed.cmd.op = "DISCARD" -> "discard"
                              [] OTHER -> "in_transaction"]
        /\ UNCHANGED <<now, guards, chanVars, streamVars, listVars, kvVars, tr,
                       codecVars>>

\* Command::MULTI: redis.tr.start_transaction(addr).await.
StartTransaction(c) ==
    LET r == start_transaction(tr, c)
    IN  /\ pc[c] = "multi"
        /\ CanWrite("tr")
        /\ tr' = r.tr
        /\ result' = [result EXCEPT ![c] = r.reply]
        /\ pc' = [pc EXCEPT ![c] = "respond"]
        /\ UNCHANGED <<now, cmd, loc, guards, chanVars, streamVars, listVars, kvVars,
                       conn, nFrames, codecVars>>

\* Command::EXEC: redis.tr.exec_transaction(addr).await, then the loop over
\* the commands taken, or the error.
ExecTransaction(c) ==
    LET r == exec_transaction(tr, c)
    IN  /\ pc[c] = "exec"
        /\ CanWrite("tr")
        /\ tr' = r.tr
        /\ IF r.some
           THEN /\ loc' = [loc EXCEPT ![c] = ExecLoc(r.q)]
                /\ pc' = [pc EXCEPT ![c] = "exec_loop"]
                /\ UNCHANGED result
           ELSE /\ result' = [result EXCEPT ![c] = Error(ErrExecWithoutMulti)]
                /\ pc' = [pc EXCEPT ![c] = "respond"]
                /\ UNCHANGED loc
        /\ UNCHANGED <<now, cmd, guards, chanVars, streamVars, listVars, kvVars,
                       conn, nFrames, codecVars>>

\* One turn of the loop of EXEC: execute_command(cmd, redis).await, and
\* results.push(result) if it returned Some; after the last command the
\* reply Array(results).
ExecLoop(c) ==
    LET l == loc[c]
    IN  /\ pc[c] = "exec_loop"
        /\ IF l.i < Len(l.cmds)
           THEN LET command == l.cmds[l.i + 1]
                    r == execute_command(command, entries, now)
                IN  /\ command.op \in KvOps => CanWrite("entries")
                    /\ entries' = r.entries
                    /\ loc' = [loc EXCEPT ![c] =
                                 [cmds |-> l.cmds, i |-> l.i + 1,
                                  results |-> IF r.reply = NoReply THEN l.results
                                              ELSE Append(l.results, r.reply),
                                  each |-> Append(l.each, r.reply)]]
                    /\ UNCHANGED <<pc, result>>
           ELSE /\ result' = [result EXCEPT ![c] = Array(l.results)]
                /\ pc' = [pc EXCEPT ![c] = "respond"]
                /\ UNCHANGED <<loc, entries>>
        /\ UNCHANGED <<now, cmd, guards, chanVars, streamVars, listVars,
                       klog, nIncr, nSet, frontVars>>

\* Command::DISCARD: redis.tr.discard_transaction(addr).await.
DiscardTransaction(c) ==
    LET r == discard_transaction(tr, c)
    IN  /\ pc[c] = "discard"
        /\ CanWrite("tr")
        /\ tr' = r.tr
        /\ result' = [result EXCEPT ![c] = r.reply]
        /\ loc' = [loc EXCEPT ![c] = DiscardLoc(IF c \in DOMAIN tr THEN tr[c].q ELSE <<>>)]
        /\ pc' = [pc EXCEPT ![c] = "respond"]
        /\ UNCHANGED <<now, cmd, guards, chanVars, streamVars, listVars, kvVars,
                       conn, nFrames, codecVars>>

\* if redis.tr.in_transaction(addr).await
InTransaction(c) ==
    /\ pc[c] = "in_transaction"
    /\ CanRead("tr")
    /\ pc' = [pc EXCEPT ![c] = IF in_transaction(tr, c) THEN "queue" ELSE "execute"]
    /\ UNCHANGED <<now, cmd, loc, result, guards, chanVars, streamVars, listVars,
                   kvVars, frontVars>>

\* return Some(redis.tr.queue_command(addr, parsed_command).await)
QueueCommand(c) ==
    LET r == queue_command(tr, c, cmd[c])
    IN  /\ pc[c] = "queue"
        /\ CanWrite("tr")
        /\ tr' = r.tr
        /\ result' = [result EXCEPT ![c] = r.reply]
        /\ pc' = [pc EXCEPT ![c] = "respond"]
        /\ UNCHANGED <<now, cmd, loc, guards, chanVars, streamVars, listVars, kvVars,
                       conn, nFrames, codecVars>>

\* execute_command(parsed_command, redis).await outside a transaction: None
\* ends handle_command with nothing to send.
ExecuteCommand(c) ==
    LET r == execute_command(cmd[c], entries, now)
    IN  /\ pc[c] = "execute"
        /\ cmd[c].op \in KvOps => CanWrite("entries")
        /\ entries' = r.entries
        /\ IF r.reply = NoReply
           THEN /\ pc' = [pc EXCEPT ![c] = "idle"]
                /\ cmd' = [cmd EXCEPT ![c] = NoCmd]
                /\ UNCHANGED result
           ELSE /\ result' = [result EXCEPT ![c] = r.reply]
                /\ pc' = [pc EXCEPT ![c] = "respond"]
                /\ UNCHANGED cmd
        /\ UNCHANGED <<now, loc, guards, chanVars, streamVars, listVars,
                       klog, nIncr, nSet, frontVars>>

\* framed.send(response).await (src/src/main.rs:123-128), and the loop
\* waits for the next frame.
SendResponse(c) ==
    /\ pc[c] = "respond"
    /\ conn' = [conn EXCEPT ![c].replies = @ + 1]
    /\ pc' = [pc EXCEPT ![c] = "idle"]
    /\ cmd' = [cmd EXCEPT ![c] = NoCmd]
    /\ loc' = [loc EXCEPT ![c] = NoLoc]
    /\ result' = [result EXCEPT ![c] = NoReply]
    /\ UNCHANGED <<now, guards, chanVars, streamVars, listVars, kvVars, tr, nFrames,
                   codecVars>>

(***************************************************************************)
(* The codec (src/src/resp.rs).  Positions count from 0 as in the source:  *)
(* the byte at position p of b is b[p + 1].                                *)
(***************************************************************************)
CR == "\r"
LF == "\n"

\* RedisValueRef::ErrorMsg
ErrorMsg(b) == [t |-> "ErrorMsg", v |-> b]

\* Encoder::encode: the bytes appended to dst for item.
RECURSIVE encode(_)
encode(value) ==
    LET EncodeAll[i \in 0..Len(value.v)] ==
            IF i = 0 THEN <<>> ELSE EncodeAll[i - 1] \o encode(value.v[i])
    IN  CASE value.t = "String" -> <<"+">> \o value.v \o <<CR, LF>>
          [] value.t = "Error" -> <<"-">> \o value.v \o <<CR, LF>>
          [] value.t = "Int" -> <<":">> \o I64ToString(value.v) \o <<CR, LF>>
          [] value.t = "BulkString" ->
                 <<"$">> \o U64ToString(Len(value.v)) \o <<CR, LF>> \o value.v \o <<CR, LF>>
          [] value.t = "Array" ->
                 <<"*">> \o U64ToString(Len(value.v)) \o EncodeAll[Len(value.v)]
          [] value.t = "NullBulkString" -> <<"$", "-", "1", CR, LF>>
          [] value.t = "NullArray" -> <<"*", "-", "1", CR, LF>>
          [] OTHER -> <<>>

\* word: None, or Some((pos + end + 2, BufSplit(pos, pos + end))).  end is
\* the index of the first CR in buf[pos..], and is compared with buf.len().
NoWord == [some |-> FALSE, pos |-> 0, from |-> 0, to |-> 0]
word(b, pos) ==
    IF Len(b) <= pos THEN NoWord
    ELSE LET found == Memchr(CR, SubSeq(b, pos + 1, Len(b)))
             end == found - 1
         IN  IF found = 0 THEN NoWord
             ELSE IF end + 1 < Len(b)
             THEN [some |-> TRUE, pos |-> pos + end + 2, from |-> pos, to |-> pos + end]
             ELSE NoWord

\* BufSplit::as_slice and BufSplit::as_bytes
as_slice(w, b) == SubSeq(b, w.from + 1, w.to)

\* RedisResult: Ok(Some((pos, value))), Ok(None), Err(_), or a panic.
Some(pos, value) == [kind |-> "Some", pos |-> pos, value |-> value]
NeedMore == [kind |-> "None", pos |-> 0, value |-> NoReply]
Err == [kind |-> "Err", pos |-> 0, value |-> NoReply]
IndexPanic == [kind |-> "Panic", pos |-> 0, value |-> NoReply]

\* int: the word at pos parsed as i64; value is the number.
int(b, pos) ==
    LET w == word(b, pos)
        i == ParseI64(as_slice(w, b))
    IN  IF ~w.some THEN NeedMore
        ELSE IF ~i.ok THEN Err
        ELSE Some(w.pos, i.val)

simple_string(b, pos) ==
    LET w == word(b, pos)
    IN  IF w.some THEN Some(w.pos, SimpleString(as_slice(w, b))) ELSE NeedMore

error(b, pos) ==
    LET w == word(b, pos)
    IN  IF w.some THEN Some(w.pos, Error(as_slice(w, b))) ELSE NeedMore

resp_int(b, pos) ==
    LET i == int(b, pos)
    IN  IF i.kind = "Some" THEN Some(i.pos, Integer(i.value)) ELSE i

\* bulk_string: the bytes become RedisBufSplit::String.
bulk_string(b, pos) ==
    LET i == int(b, pos)
        total_size == i.pos + i.value
    IN  IF i.kind # "Some" THEN i
        ELSE IF i.value = -1 THEN Some(i.pos, NullBulkString)
        ELSE IF i.value >= 0
        THEN IF Len(b) < total_size + 2 THEN NeedMore
             ELSE Some(total_size + 2, SimpleString(SubSeq(b, i.pos + 1, total_size)))
        ELSE Err

\* parse, array and the loop of array; buf[pos] panics when pos is not
\* below buf.len().
RECURSIVE parse(_, _)
RECURSIVE ArrayLoop(_, _, _, _)
ArrayLoop(b, left, curr_pos, values) ==
    IF left = 0 THEN Some(curr_pos, Array(values))
    ELSE LET r == parse(b, curr_pos)
         IN  IF r.kind = "Some"
             THEN ArrayLoop(b, left - 1, r.pos, Append(values, r.value))
             ELSE r

array(b, pos) ==
    LET i == int(b, pos)
    IN  IF i.kind # "Some" THEN i
        ELSE IF i.value = -1 THEN Some(i.pos, NullArray)
        ELSE IF i.value >= 0 THEN ArrayLoop(b, i.value, i.pos, <<>>)
        ELSE Err

parse(b, pos) ==
    IF b = <<>> THEN NeedMore
    ELSE IF pos >= Len(b) THEN IndexPanic
    ELSE CASE b[pos + 1] = "+" -> simple_string(b, pos + 1)
           [] b[pos + 1] = "-" -> error(b, pos + 1)
           [] b[pos + 1] = "$" -> bulk_string(b, pos + 1)
           [] b[pos + 1] = ":" -> resp_int(b, pos + 1)
           [] b[pos + 1] = "*" -> array(b, pos + 1)
           [] OTHER -> Err

\* Decoder::decode: what it returns and what it leaves in buf;
\* buf.split_to(pos) panics when pos is beyond buf.len().
decode(b) ==
    LET r == IF b = <<>> THEN NeedMore ELSE parse(b, 0)
    IN  IF r.kind = "Some"
        THEN IF r.pos > Len(b)
             THEN [kind |-> "Panic", value |-> NoReply, taken |-> 0, rest |-> b]
             ELSE [kind |-> "Some", value |-> r.value, taken |-> r.pos,
                   rest |-> SubSeq(b, r.pos + 1, Len(b))]
        ELSE [kind |-> r.kind, value |-> NoReply, taken |-> 0, rest |-> b]

\* Nothing was put on the wire yet.
NoItem == [kind |-> "None", value |-> NoReply, bytes |-> <<>>]

\* What the last call of decode returned; Idle: it was not called yet.
\* before and left are the read buffer before and after the call.
NoOutcome ==
    [kind |-> "Idle", value |-> NoReply, taken |-> 0, before |-> <<>>, left |-> <<>>]

\* The connection ended: decode returned Err (src/src/main.rs:131-135) or
\* the task panicked.
Closed == out.kind \in {"Err", "Panic"}

\* The encoder of a peer that runs this codec puts item on the wire.
Encode(value) ==
    /\ ~Closed
    /\ wire = <<>>
    /\ buf = <<>>
    /\ item' = [kind |-> "reply", value |-> value, bytes |-> encode(value)]
    /\ wire' = encode(value)
    /\ out' = NoOutcome
    /\ UNCHANGED <<now, taskVars, guards, chanVars, streamVars, listVars, kvVars,
                   txVars, buf>>

\* A client puts the frame bytes, which stand for value, and then suffix on
\* the wire.
Send(value, bytes, suffix) ==
    /\ ~Closed
    /\ wire = <<>>
    /\ buf = <<>>
    /\ item' = [kind |-> "frame", value |-> value, bytes |-> bytes]
    /\ wire' = bytes \o suffix
    /\ out' = NoOutcome
    /\ UNCHANGED <<now, taskVars, guards, chanVars, streamVars, listVars, kvVars,
                   txVars, buf>>

\* The next byte reaches the read buffer of Framed.
Arrive ==
    /\ ~Closed
    /\ wire # <<>>
    /\ buf' = Append(buf, Head(wire))
    /\ wire' = Tail(wire)
    /\ UNCHANGED <<now, taskVars, guards, chanVars, streamVars, listVars, kvVars,
                   txVars, item, out>>

\* framed.next() calls decode on the read buffer.
Decode ==
    LET r == decode(buf)
    IN  /\ ~Closed
        /\ out' = [kind |-> r.kind, value |-> r.value, taken |-> r.taken,
                   before |-> buf, left |-> r.rest]
        /\ buf' = r.rest
        /\ UNCHANGED <<now, taskVars, guards, chanVars, streamVars, listVars, kvVars,
                       txVars, item, wire>>

\* listener.accept() takes the next connection, with an empty read buffer.
Accept ==
    /\ Closed
    /\ item' = NoItem
    /\ wire' = <<>>
    /\ buf' = <<>>
    /\ out' = NoOutcome
    /\ UNCHANGED <<now, taskVars, guards, chanVars, streamVars, listVars, kvVars,
                   txVars>>

(***************************************************************************)
(* The specifications: clients that call the operations of one store on    *)
(* one server.                                                             *)
(***************************************************************************)
Init ==
    /\ now = 0
    /\ pc = [c \in Tasks |-> "idle"]
    /\ cmd = [c \in Tasks |-> NoCmd]
    /\ loc = [c \in Tasks |-> NoLoc]
    /\ result = [c \in Tasks |-> NoReply]
    /\ guards = [g \in GuardNames |-> [w |-> None, r |-> {}]]
    /\ rx = [c \in Tasks |-> 0]
    /\ woken = [c \in Tasks |-> FALSE]
    /\ streams = EmptyMap
    /\ sblocked = EmptyMap
    /\ xlog = [k \in StreamNames |-> <<>>]
    /\ nXadd = 0
    /\ lists = EmptyMap
    /\ lblocked = EmptyMap
    /\ entries = EmptyMap
    /\ klog = [k \in KvKeys |-> NoHistory]
    /\ nIncr = 0
    /\ nSet = 0
    /\ tr = EmptyMap
    /\ conn = [c \in Tasks |-> NoTraffic]
    /\ nFrames = 0
    /\ item = NoItem
    /\ wire = <<>>
    /\ buf = <<>>
    /\ out = NoOutcome

\* SET, GET, INCR and KEYS from every client.
KvNext ==
    \/ Tick
    \/ \E c \in Clients : SendReply(c)
    \/ \E c \in Clients, k \in KvKeys, v \in KvValues, e \in KvExpiries :
          SetStart(c, k, v, e)
    \/ \E c \in Clients : SetBody(c)
    \/ \E c \in Clients, k \in KvKeys : GetStart(c, k)
    \/ \E c \in Clients : GetBody(c)
    \/ \E c \in Clients, k \in KvKeys : IncrStart(c, k)
    \/ \E c \in Clients : IncrBody(c)
    \/ \E c \in Clients, p \in KvPatterns : KeysStart(c, p)
    \/ \E c \in Clients : KeysBody(c)

KvSpec == Init /\ [][KvNext]_vars

\* A frame as the decoder hands it to handle_command: an array of strings.
CommandFrame(words) == Array([i \in 1..Len(words) |-> SimpleString(words[i])])

\* The frames of the clients that use transactions.
TxFrames ==
    { CommandFrame(<<<<"M", "U", "L", "T", "I">>>>),
      CommandFrame(<<<<"E", "X", "E", "C">>>>),
      CommandFrame(<<<<"D", "I", "S", "C", "A", "R", "D">>>>),
      CommandFrame(<<<<"p", "i", "n", "g">>>>),
      CommandFrame(<<<<"S", "E", "T">>, <<"k">>, <<"7">>>>),
      CommandFrame(<<<<"I", "N", "C", "R">>, <<"k">>>>),
      CommandFrame(<<<<"G", "E", "T">>, <<"k">>>>),
      CommandFrame(<<<<"C", "O", "N", "F", "I", "G">>, <<"G", "E", "T">>, <<"x">>>>) }

\* One step of the connection of c.
Handle(c) ==
    \/ StartTransaction(c)
    \/ ExecTransaction(c)
    \/ ExecLoop(c)
    \/ DiscardTransaction(c)
    \/ InTransaction(c)
    \/ QueueCommand(c)
    \/ ExecuteCommand(c)
    \/ SendResponse(c)

\* Connections that send transactions and commands of the key-value store.
TxNext ==
    \/ \E c \in Clients, value \in TxFrames : Receive(c, value)
    \/ \E c \in Clients : Handle(c)

TxSpec == Init /\ [][TxNext]_vars

\* The expiry options of the clients that test deadlines: PX 1, and Unix
\* times around the wall clock given with PXAT and EXAT.
ExpiryOptions ==
    { <<<<"P", "X">>, 1>>,
      <<<<"P", "X", "A", "T">>, WallBase + 1>>,
      <<<<"P", "X", "A", "T">>, WallBase + 2>>,
      <<<<"E", "X", "A", "T">>, 0>> }

\* SET with an expiry option and GET from every client, while time passes.
ExpiryNext ==
    \/ Tick
    \/ \E c \in Clients : SendReply(c)
    \/ \E c \in Clients, k \in KvKeys, e \in ExpiryOptions :
          SetStart(c, k, <<"7">>, e)
    \/ \E c \in Clients : SetBody(c)
    \/ \E c \in Clients, k \in KvKeys : GetStart(c, k)
    \/ \E c \in Clients : GetBody(c)

ExpirySpec == Init /\ [][ExpiryNext]_vars

\* The values the clients that count set: 7, i64::MAX and one that is not
\* a number.
IncrValues ==
    { <<"7">>, <<"x">>, I64ToString(I64Max) }

\* SET, with and without a deadline, and INCR from every client, while time
\* passes.
IncrNext ==
    \/ Tick
    \/ \E c \in Clients : SendReply(c)
    \/ \E c \in Clients, k \in KvKeys, v \in IncrValues, e \in KvExpiries :
          SetStart(c, k, v, e)
    \/ \E c \in Clients : SetBody(c)
    \/ \E c \in Clients, k \in KvKeys : IncrStart(c, k)
    \/ \E c \in Clients : IncrBody(c)

IncrSpec == Init /\ [][IncrNext]_vars

\* handle_command with a BLPOP or an XREAD frame: parse_command, then
\* execute_command calls blpop(key, timeout) (src/src/commands.rs:447),
\* blocking_xread(key_stream_start, duration) or xread (lines 465-482) with
\* what parse_command made of the frame.  The keys of these frames are one
\* byte long, and the stores of the model name a key by that byte.  The
\* command keeps, as history, the frame it was parsed from.
DispatchBlocking(c, value) ==
    LET parsed == parse_command(value.v)
        command == parsed.cmd
        key == IF command.op = "BLPOP" THEN command.key[1]
               ELSE command.key_stream_start[1][1]
    IN  /\ pc[c] = "idle"
        /\ nFrames < MaxFrames
        /\ parsed.kind = "Some"
        /\ command.op \in {"BLPOP", "XREAD"}
        /\ nFrames' = nFrames + 1
        /\ IF command.op = "BLPOP"
           THEN /\ Len(ListOf(lblocked, key)) < MaxWaiters
                /\ cmd' = [cmd EXCEPT ![c] =
                              [op |-> "BLPOP", key |-> key,
                               timeout |-> command.timeout, frame |-> value]]
                /\ loc' = [loc EXCEPT ![c] =
                              [ListLoc EXCEPT !.watch.absent = key \notin DOMAIN lists]]
                /\ pc' = [pc EXCEPT ![c] = "blpop_check_wait"]
           ELSE /\ cmd' = [cmd EXCEPT ![c] =
                              [op |-> "XREAD", key |-> key,
                               kv |-> <<key, command.key_stream_start[2]>>,
                               block |-> command.timeout # NoInstant,
                               timeout |-> command.timeout, frame |-> value]]
                /\ loc' = [loc EXCEPT ![c] = NoLoc]
                /\ pc' = [pc EXCEPT ![c] = "xread_wait"]
        /\ UNCHANGED <<now, kvVars, result, guards, chanVars, streamVars, listVars,
                       tr, conn, codecVars>>

\* The frames of the clients that block: BLPOP and XREAD block with the
\* timeouts 0, 1 and 2, and XREAD without block.
BlockingFrames ==
    { CommandFrame(<<<<"B", "L", "P", "O", "P">>, <<"K">>, <<d>>>>) :
          d \in {"0", "1", "2"} }
    \cup { CommandFrame(<<<<"X", "R", "E", "A", "D">>, <<"b", "l", "o", "c", "k">>, <<d>>,
                          <<"s", "t", "r", "e", "a", "m", "s">>, <<"s">>, <<"$">>>>) :
               d \in {"0", "1", "2"} }
    \cup { CommandFrame(<<<<"X", "R", "E", "A", "D">>,
                          <<"s", "t", "r", "e", "a", "m", "s">>, <<"s">>, <<"$">>>>) }

\* BLPOP and XREAD frames from every client, on stores nobody writes.
TimeoutNext ==
    \/ \E c \in Clients, value \in BlockingFrames : DispatchBlocking(c, value)
    \/ \E c \in Clients : SendReply(c)
    \/ \E c \in Clients : BlpopDataAcquire(c)
    \/ \E c \in Clients : BlpopPop(c)
    \/ \E c \in Clients : BlpopRegisterAcquire(c)
    \/ \E c \in Clients : BlpopRegister(c)
    \/ \E c \in Clients : BlpopTimeout(c)
    \/ \E c \in Clients : XreadAcquire(c)
    \/ \E c \in Clients : XreadBody(c)
    \/ \E c \in Clients : BxreadRegisterAcquire(c)
    \/ \E c \in Clients : BxreadRegister(c)
    \/ \E c \in Clients : BxreadTimeout(c)
    \/ \E c \in Clients : BxreadCleanupAcquire(c)
    \/ \E c \in Clients : BxreadCleanup(c)

TimeoutSpec == Init /\ [][TimeoutNext]_vars

\* The frames of the clients that send single commands: well-formed ones,
\* values that are no command, and commands with a missing or ill-typed
\* argument.
ConnFrames ==
    { CommandFrame(<<<<"P", "I", "N", "G">>>>),
      CommandFrame(<<<<"e", "c", "h", "o">>, <<"a">>>>),
      CommandFrame(<<<<"S", "E", "T">>, <<"k">>, <<"7">>>>),
      CommandFrame(<<<<"G", "E", "T">>, <<"k">>>>),
      CommandFrame(<<<<"C", "O", "N", "F", "I", "G">>, <<"G", "E", "T">>, <<"d", "i", "r">>>>),
      CommandFrame(<<<<"C", "O", "N", "F", "I", "G">>, <<"G", "E", "T">>, <<"x">>>>),
      SimpleString(<<"P", "I", "N", "G">>),
      Array(<<>>),
      Array(<<Integer(1)>>),
      CommandFrame(<<<<"F", "O", "O">>>>),
      CommandFrame(<<<<"E", "C", "H", "O">>>>),
      CommandFrame(<<<<"S", "E", "T">>, <<"k">>>>),
      Array(<<SimpleString(<<"G", "E", "T">>), Integer(1)>>),
      CommandFrame(<<<<"S", "E", "T">>, <<"k">>, <<"7">>, <<"E", "X">>, <<"x">>>>),
      CommandFrame(<<<<"L", "R", "A", "N", "G", "E">>, <<"k">>, <<"x">>, <<"1">>>>),
      CommandFrame(<<<<"L", "P", "O", "P">>, <<"k">>, <<"x">>>>),
      CommandFrame(<<<<"B", "L", "P", "O", "P">>, <<"k">>, <<"x">>>>),
      CommandFrame(<<<<"X", "R", "E", "A", "D">>, <<"b", "l", "o", "c", "k">>, <<"x">>,
                     <<"s", "t", "r", "e", "a", "m", "s">>, <<"s">>, <<"$">>>>) }

\* The field and value tokens of the XADD calls of these clients: a field
\* without a value, alone and after a pair.
OddKvs == { <<"f">>, <<"f", "a", "g">> }

\* Connections that send single commands, and XADD with an odd number of
\* field and value tokens.
ConnNext ==
    \/ \E c \in Clients, value \in ConnFrames : Receive(c, value)
    \/ \E c \in Clients : InTransaction(c)
    \/ \E c \in Clients : ExecuteCommand(c)
    \/ \E c \in Clients : SendResponse(c)
    \/ \E c \in Clients, k \in StreamKeys, kv \in OddKvs :
          XaddStart(c, k, <<"9", "-", "0">>, kv)
    \/ \E c \in Clients : XaddResolveAcquire(c)
    \/ \E c \in Clients : XaddResolve(c)
    \/ \E c \in Clients : XaddInsertAcquire(c)
    \/ \E c \in Clients : XaddInsert(c)

ConnSpec == Init /\ [][ConnNext]_vars

\* The values the encoder is given.
CodecValues ==
    { SimpleString(<<"O", "K">>),
      Error(<<"E", "R", "R">>),
      Integer(7),
      Integer(-2),
      BulkString(<<"a", "b">>),
      NullBulkString,
      NullArray,
      Array(<<>>),
      Array(<<Integer(1), SimpleString(<<"a">>)>>) }

\* The RESP frame of a value: as encode, but the count of an array ends
\* with CR LF like every other header.
RECURSIVE Frame(_)
Frame(value) ==
    LET FrameAll[i \in 0..Len(value.v)] ==
            IF i = 0 THEN <<>> ELSE FrameAll[i - 1] \o Frame(value.v[i])
    IN  IF value.t = "Array"
        THEN <<"*">> \o U64ToString(Len(value.v)) \o <<CR, LF>> \o FrameAll[Len(value.v)]
        ELSE encode(value)

\* The values whose frames the clients send, and what follows a frame.
FrameValues ==
    { SimpleString(<<"O", "K">>),
      Integer(7),
      BulkString(<<"a", "b">>),
      NullBulkString,
      Array(<<>>),
      Array(<<BulkString(<<"G", "E", "T">>), BulkString(<<"k">>)>>) }

Suffixes == { <<>>, <<"+">>, <<"+", "O", "K", CR, LF>> }

\* One connection: bytes of encoded values and of frames arrive one by one
\* and decode is called between any two of them.
CodecNext ==
    \/ \E value \in CodecValues : Encode(value)
    \/ \E value \in FrameValues, suffix \in Suffixes : Send(value, Frame(value), suffix)
    \/ Arrive
    \/ Decode
    \/ Accept

CodecSpec == Init /\ [][CodecNext]_vars

\* RPUSH, LPUSH, LPOP and BLPOP from every client.
ListNext ==
    \/ \E c \in Clients : SendReply(c)
    \/ \E c \in Clients, op \in {"RPUSH", "LPUSH"}, k \in ListKeys,
          v \in ListValues : PushStart(c, op, k, v)
    \/ \E c \in Clients : PushDataAcquire(c)
    \/ \E c \in Clients : PushMutate(c)
    \/ \E c \in Clients : PushNotifyAcquire(c)
    \/ \E c \in Clients : PushNotify(c)
    \/ \E c \in Clients, k \in ListKeys, n \in LpopCounts : LpopStart(c, k, n)
    \/ \E c \in Clients : LpopAcquire(c)
    \/ \E c \in Clients : LpopBody(c)
    \/ \E c \in Clients, k \in ListKeys : BlpopStart(c, k)
    \/ \E c \in Clients : BlpopDataAcquire(c)
    \/ \E c \in Clients : BlpopPop(c)
    \/ \E c \in Clients : BlpopRegisterAcquire(c)
    \/ \E c \in Clients : BlpopRegister(c)
    \/ \E c \in Clients : BlpopWake(c)
    \/ \E c \in Clients : BlpopTimeout(c)

ListSpec == Init /\ [][ListNext]_vars

\* RPUSH, LPUSH and LRANGE from every client.
LrangeNext ==
    \/ \E c \in Clients : SendReply(c)
    \/ \E c \in Clients, op \in {"RPUSH", "LPUSH"}, k \in ListKeys,
          v \in ListValues : PushStart(c, op, k, v)
    \/ \E c \in Clients : PushDataAcquire(c)
    \/ \E c \in Clients : PushMutate(c)
    \/ \E c \in Clients : PushNotifyAcquire(c)
    \/ \E c \in Clients : PushNotify(c)
    \/ \E c \in Clients, k \in ListKeys, start \in LrangeIndices,
          end \in LrangeIndices : LrangeStart(c, k, start, end)
    \/ \E c \in Clients : LrangeAcquire(c)
    \/ \E c \in Clients : LrangeBody(c)

LrangeSpec == Init /\ [][LrangeNext]_vars

\* XADD and XRANGE from every client.
XaddNext ==
    \/ Tick
    \/ \E c \in Clients : SendReply(c)
    \/ \E c \in Clients, k \in StreamKeys, id \in XaddIds, kv \in XaddKvs :
          XaddStart(c, k, id, kv)
    \/ \E c \in Clients : XaddResolveAcquire(c)
    \/ \E c \in Clients : XaddResolve(c)
    \/ \E c \in Clients : XaddInsertAcquire(c)
    \/ \E c \in Clients : XaddInsert(c)
    \/ \E c \in Clients : XaddNotifyAcquire(c)
    \/ \E c \in Clients : XaddNotify(c)
    \/ \E c \in Clients, k \in StreamKeys, b \in XrangeBounds :
          XrangeStart(c, k, b[1], b[2])
    \/ \E c \in Clients : XrangeAcquire(c)
    \/ \E c \in Clients : XrangeBody(c)

XaddSpec == Init /\ [][XaddNext]_vars

\* The IDs given to XADD beside the reads: 9-0, 9-* and one without a dash.
XreadXaddIds == { <<"9", "-", "0">>, <<"9", "-", "*">>, <<"x">> }

\* XADD, XREAD and blocking XREAD from every client.
XreadNext ==
    \/ \E c \in Clients : SendReply(c)
    \/ \E c \in Clients, k \in StreamKeys, id \in XreadXaddIds :
          XaddStart(c, k, id, <<"f", "a">>)
    \/ \E c \in Clients : XaddResolveAcquire(c)
    \/ \E c \in Clients : XaddResolve(c)
    \/ \E c \in Clients : XaddInsertAcquire(c)
    \/ \E c \in Clients : XaddInsert(c)
    \/ \E c \in Clients : XaddNotifyAcquire(c)
    \/ \E c \in Clients : XaddNotify(c)
    \/ \E c \in Clients, kv \in XreadKvs, block \in BOOLEAN :
          XreadStart(c, kv, block)
    \/ \E c \in Clients : XreadAcquire(c)
    \/ \E c \in Clients : XreadBody(c)
    \/ \E c \in Clients : BxreadRegisterAcquire(c)
    \/ \E c \in Clients : BxreadRegister(c)
    \/ \E c \in Clients : BxreadWake(c)
    \/ \E c \in Clients : BxreadTimeout(c)
    \/ \E c \in Clients : BxreadCleanupAcquire(c)
    \/ \E c \in Clients : BxreadCleanup(c)

XreadSpec == Init /\ [][XreadNext]_vars

\* The IDs given to XADD beside the reads without block.
ReadXaddIds == { <<"9", "-", "0">>, <<"1", "0", "-", "0">>, <<"9", "-", "1">> }

\* The pairs given to XREAD without block: one key, from 0-0, from 9-0 and
\* from "$"; two keys, one of them a stream nobody adds to.
ReadKvs ==
    { <<"s", <<"0", "-", "0">>>>,
      <<"s", <<"9", "-", "0">>>>,
      <<"s", <<"$">>>>,
      <<"u", <<"0", "-", "0">>, "s", <<"0", "-", "0">>>>,
      <<"s", <<"9", "-", "0">>, "u", <<"$">>>> }

\* XADD and XREAD without block from every client.
ReadNext ==
    \/ \E c \in Clients : SendReply(c)
    \/ \E c \in Clients, k \in StreamKeys, id \in ReadXaddIds :
          XaddStart(c, k, id, <<"f", "a">>)
    \/ \E c \in Clients : XaddResolveAcquire(c)
    \/ \E c \in Clients : XaddResolve(c)
    \/ \E c \in Clients : XaddInsertAcquire(c)
    \/ \E c \in Clients : XaddInsert(c)
    \/ \E c \in Clients : XaddNotifyAcquire(c)
    \/ \E c \in Clients : XaddNotify(c)
    \/ \E c \in Clients, kv \in ReadKvs : XreadStart(c, kv, FALSE)
    \/ \E c \in Clients : XreadAcquire(c)
    \/ \E c \in Clients : XreadBody(c)

ReadSpec == Init /\ [][ReadNext]_vars

\* Two clients in blocking XREAD from "$" on one stream, and a third
\* connection that adds to it with XADD 9-*.
WakeNext ==
    \/ \E c \in Tasks : SendReply(c)
    \/ \E k \in StreamKeys : XaddStart("c3", k, <<"9", "-", "*">>, <<"f", "a">>)
    \/ XaddResolveAcquire("c3")
    \/ XaddResolve("c3")
    \/ XaddInsertAcquire("c3")
    \/ XaddInsert("c3")
    \/ XaddNotifyAcquire("c3")
    \/ XaddNotify("c3")
    \/ \E c \in Clients : XreadStart(c, <<"s", <<"$">>>>, TRUE)
    \/ \E c \in Clients : XreadAcquire(c)
    \/ \E c \in Clients : XreadBody(c)
    \/ \E c \in Clients : BxreadRegisterAcquire(c)
    \/ \E c \in Clients : BxreadRegister(c)
    \/ \E c \in Clients : BxreadWake(c)
    \/ \E c \in Clients : BxreadTimeout(c)
    \/ \E c \in Clients : BxreadCleanupAcquire(c)
    \/ \E c \in Clients : BxreadCleanup(c)

WakeSpec == Init /\ [][WakeNext]_vars

\* The pairs the blocking XREADs over two keys list: s, then t, from 0-0.
FirstKeyKvs == { <<"s", <<"0", "-", "0">>, "t", <<"0", "-", "0">>>> }

\* Two clients in blocking XREAD over the streams s and t, and a third
\* connection that adds to either stream with XADD 9-*.
FirstKeyNext ==
    \/ \E c \in Tasks : SendReply(c)
    \/ \E k \in StreamNames : XaddStart("c3", k, <<"9", "-", "*">>, <<"f", "a">>)
    \/ XaddResolveAcquire("c3")
    \/ XaddResolve("c3")
    \/ XaddInsertAcquire("c3")
    \/ XaddInsert("c3")
    \/ XaddNotifyAcquire("c3")
    \/ XaddNotify("c3")
    \/ \E c \in Clients, kv \in FirstKeyKvs : XreadStart(c, kv, TRUE)
    \/ \E c \in Clients : XreadAcquire(c)
    \/ \E c \in Clients : XreadBody(c)
    \/ \E c \in Clients : BxreadRegisterAcquire(c)
    \/ \E c \in Clients : BxreadRegister(c)
    \/ \E c \in Clients : BxreadWake(c)
    \/ \E c \in Clients : BxreadTimeout(c)
    \/ \E c \in Clients : BxreadCleanupAcquire(c)
    \/ \E c \in Clients : BxreadCleanup(c)

FirstKeySpec == Init /\ [][FirstKeyNext]_vars

\* The IDs of the XADDs that leave the sequence number to the server, and
\* the explicit IDs that fill the stream before them.
SeqXaddIds ==
    { <<"9", "-", "0">>, <<"1", "0", "-", "0">>, <<"0", "-", "*">>,
      <<"9", "-", "*">>, <<"1", "0", "-", "*">> }

\* XADDs with explicit and with partly generated IDs on one stream.
SeqNext ==
    \/ \E c \in Clients : SendReply(c)
    \/ \E c \in Clients, k \in StreamKeys, id \in SeqXaddIds :
          XaddStart(c, k, id, <<"f", "a">>)
    \/ \E c \in Clients : XaddResolveAcquire(c)
    \/ \E c \in Clients : XaddResolve(c)
    \/ \E c \in Clients : XaddInsertAcquire(c)
    \/ \E c \in Clients : XaddInsert(c)
    \/ \E c \in Clients : XaddNotifyAcquire(c)
    \/ \E c \in Clients : XaddNotify(c)

SeqSpec == Init /\ [][SeqNext]_vars

\* The BLPOP of c waits on K with its sender in the queue and no signal.
WaitsUnsignalled(c) ==
    /\ pc[c] = "blpop_waiting"
    /\ ~woken[c]
    /\ rx[c] \in QueuedSenders(lblocked)

\* Client c1, then client c2, call BLPOP K on the absent list K; when both
\* wait, a third connection calls RPUSH K v and, with c2 still waiting,
\* RPUSH K w.  No timeout elapses.
OrderNext ==
    \/ \E c \in Tasks : SendReply(c)
    \/ /\ \A c \in Tasks : pc[c] = "idle"
       /\ lists = EmptyMap
       /\ lblocked = EmptyMap
       /\ BlpopStart("c1", "K")
    \/ /\ WaitsUnsignalled("c1")
       /\ BlpopStart("c2", "K")
    \/ /\ ListOf(lblocked, "K") = <<rx["c1"], rx["c2"]>>
       /\ WaitsUnsignalled("c1")
       /\ WaitsUnsignalled("c2")
       /\ PushStart("c3", "RPUSH", "K", "v")
    \/ /\ ListOf(lblocked, "K") = <<rx["c2"]>>
       /\ WaitsUnsignalled("c2")
       /\ PushStart("c3", "RPUSH", "K", "w")
    \/ PushDataAcquire("c3")
    \/ PushMutate("c3")
    \/ PushNotifyAcquire("c3")
    \/ PushNotify("c3")
    \/ \E c \in Clients : BlpopDataAcquire(c)
    \/ \E c \in Clients : BlpopPop(c)
    \/ \E c \in Clients : BlpopRegisterAcquire(c)
    \/ \E c \in Clients : BlpopRegister(c)
    \/ \E c \in Clients : BlpopWake(c)

OrderSpec == Init /\ [][OrderNext]_vars

\* The steps of task c inside a call of the list store or the stream store:
\* every step but the start of a call.
Step(c) ==
    \/ SendReply(c)
    \/ PushDataAcquire(c) \/ PushMutate(c)
    \/ PushNotifyAcquire(c) \/ PushNotify(c)
    \/ LpopAcquire(c) \/ LpopBody(c)
    \/ BlpopDataAcquire(c) \/ BlpopPop(c)
    \/ BlpopRegisterAcquire(c) \/ BlpopRegister(c)
    \/ BlpopWake(c) \/ BlpopTimeout(c)
    \/ XaddResolveAcquire(c) \/ XaddResolve(c)
    \/ XaddInsertAcquire(c) \/ XaddInsert(c)
    \/ XaddNotifyAcquire(c) \/ XaddNotify(c)
    \/ XreadAcquire(c) \/ XreadBody(c)
    \/ BxreadRegisterAcquire(c) \/ BxreadRegister(c)
    \/ BxreadWake(c) \/ BxreadTimeout(c)
    \/ BxreadCleanupAcquire(c) \/ BxreadCleanup(c)

\* The IDs given to XADD in EngineNext: 9-* and one without a dash.
EngineXaddIds == { <<"9", "-", "*">>, <<"x">> }

ListOps == {"RPUSH", "LPUSH", "LPOP", "BLPOP"}
StreamOps == {"XADD", "XRANGE", "XREAD"}

\* The list store is as it was created and no task is inside one of its calls.
ListQuiet ==
    /\ lists = EmptyMap
    /\ lblocked = EmptyMap
    /\ \A c \in Clients : cmd[c].op \notin ListOps

\* The stream store is as it was created and no task is inside one of its
\* calls.
StreamQuiet ==
    /\ streams = EmptyMap
    /\ sblocked = EmptyMap
    /\ nXadd = 0
    /\ \A c \in Clients : cmd[c].op \notin StreamOps

\* The clients run RPUSH, LPUSH, LPOP and BLPOP calls concurrently on a
\* server whose stream store is unused, or XADD, XREAD and blocking XREAD
\* calls concurrently on a server whose list store is unused.
EngineNext ==
    \/ /\ StreamQuiet
       /\ \E c \in Clients, op \in {"RPUSH", "LPUSH"}, k \in ListKeys :
             PushStart(c, op, k, "v")
    \/ /\ StreamQuiet
       /\ \E c \in Clients, k \in ListKeys : LpopStart(c, k, 1)
    \/ /\ StreamQuiet
       /\ \E c \in Clients, k \in ListKeys : BlpopStart(c, k)
    \/ /\ ListQuiet
       /\ \E c \in Clients, k \in StreamKeys, id \in EngineXaddIds :
             XaddStart(c, k, id, <<"f", "a">>)
    \/ /\ ListQuiet
       /\ \E c \in Clients, block \in BOOLEAN :
             XreadStart(c, <<"s", <<"$">>>>, block)
    \/ \E c \in Clients : Step(c)

EngineSpec == Init /\ [][EngineNext]_vars

\* The runtime schedules every task that can run, a guard that is released
\* again and again is granted to every task that waits for it, and a timer
\* fires when its duration has elapsed.
EngineFairSpec == EngineSpec /\ \A c \in Clients : SF_vars(Step(c))

(***************************************************************************)
(* Stream IDs as numbers.                                                  *)
(***************************************************************************)
\* (ms1, seq1) < (ms2, seq2) as pairs of unsigned integers.
IdLess(ts1, seq1, ts2, seq2) ==
    \/ ParseU64(ts1) < ParseU64(ts2)
    \/ (ParseU64(ts1) = ParseU64(ts2) /\ ParseU64(seq1) < ParseU64(seq2))

\* C1: in every stream, every successful XADD stored an ID strictly greater,
\* as a pair (ms, seq) of unsigned integers, than the ID of every XADD that
\* succeeded before it; no two successful XADDs share an ID.
XaddIdsStrictlyIncrease ==
    \A k \in StreamKeys : \A i, j \in 1..Len(xlog[k]) :
        i < j => IdLess(xlog[k][i].ts, xlog[k][i].seq,
                        xlog[k][j].ts, xlog[k][j].seq)

\* C2: a reply of XRANGE S - + holds one element for every XADD that had
\* succeeded on S when the stream was read, with the ID of that XADD, and
\* lists the elements in ascending numeric order of (ms, seq).
XrangeListsEveryXaddAscending ==
    \A c \in Clients :
        (/\ pc[c] = "reply"
         /\ cmd[c].op = "XRANGE"
         /\ cmd[c].start = <<"-">>
         /\ cmd[c].end = <<"+">>)
        => LET res == result[c].v
               snap == loc[c].snap
           IN  /\ Len(res) = Len(snap)
               /\ {res[i].id : i \in 1..Len(res)}
                     = {FormatId(snap[i].ts, snap[i].seq) : i \in 1..Len(snap)}
               /\ \A i, j \in 1..Len(res) :
                     i < j => IdLess(IdTs(res[i].id), IdSeq(res[i].id),
                                     IdTs(res[j].id), IdSeq(res[j].id))

\* C3: no XADD with a fully specified ID stored its entry while the stream
\* held an ID equal to or greater than it (it was answered with the error
\* instead, and the stream was left as it was).
XaddRejectsIdNotAboveTop ==
    \A k \in StreamKeys : \A i \in 1..Len(xlog[k]) :
        xlog[k][i].explicit
        => \A n \in 1..Len(xlog[k][i].before) :
              IdLess(xlog[k][i].before[n].ts, xlog[k][i].before[n].seq,
                     xlog[k][i].ts, xlog[k][i].seq)

(***************************************************************************)
(* The list store.                                                         *)
(***************************************************************************)
\* C4: a BLPOP on K that was issued while K was absent, during which one
\* value v was pushed on K, by an LPUSH that returned before the BLPOP did,
\* and nobody else popped from K, replies [K, v] and leaves K absent.
BlpopServedBySinglePush ==
    \A c \in Clients :
        (/\ pc[c] = "reply"
         /\ cmd[c].op = "BLPOP"
         /\ loc[c].watch.absent
         /\ Len(loc[c].watch.pushes) = 1
         /\ loc[c].watch.pushes[1][1] = "LPUSH"
         /\ loc[c].watch.returned = 1
         /\ loc[c].watch.pops = 0)
        => /\ result[c] = Array(<<BulkString(cmd[c].key),
                                  BulkString(loc[c].watch.pushes[1][2])>>)
           /\ cmd[c].key \notin DOMAIN lists

\* C5: no key of the list map maps to an empty deque (a key is present if
\* and only if it has elements), whatever calls have completed or are under
\* way.
ListKeyPresentIffNonEmpty ==
    \A k \in DOMAIN lists : lists[k] # <<>>

\* Witness of C5: a pop took the last element of a list, and the key is gone.
PopEmptiedList ==
    \E c \in Clients :
        /\ pc[c] = "reply"
        /\ cmd[c].op \in {"LPOP", "BLPOP"}
        /\ result[c].t \in {"BulkString", "Array"}
        /\ cmd[c].key \notin DOMAIN lists

(***************************************************************************)
(* The guards of the two stores.                                           *)
(***************************************************************************)
\* C6: no task holds the data guard and the waiter guard of a store at the
\* same time; a task that waits on its notifier or its timeout holds no
\* guard; a push or an XADD that is about to acquire the waiter guard has
\* released the data guard.
GuardsNeverHeldTogether ==
    \A c \in Clients :
        /\ ~({"lists", "lblocked"} \subseteq Held(c))
        /\ ~({"streams", "sblocked"} \subseteq Held(c))
        /\ pc[c] \in {"blpop_waiting", "bxread_waiting"} => Held(c) = {}
        /\ pc[c] = "push_notify_wait" => "lists" \notin Held(c)
        /\ pc[c] = "xadd_notify_wait" => "streams" \notin Held(c)

\* Witness of C6: a push holds the waiter guard, about to signal a BLPOP
\* that waits on its notifier.
PushSignalsWaiter ==
    \E c, d \in Clients :
        /\ pc[c] = "push_notify"
        /\ "lblocked" \in Held(c)
        /\ pc[d] = "blpop_waiting"
        /\ ~woken[d]

\* C7: under fair scheduling every call of the list store and of the stream
\* store completes: no set of concurrent calls blocks for ever, and a
\* blocking call ends at the latest with its timeout.
EveryCallCompletes ==
    \A c \in Clients : (pc[c] # "idle") ~> (pc[c] = "idle")

\* Witness of C7: a BLPOP ran into its timeout while the other task was
\* inside a push.
BlpopTimedOutBesidePush ==
    \E c, d \in Clients :
        /\ pc[c] = "reply"
        /\ cmd[c].op = "BLPOP"
        /\ result[c] = NullArray
        /\ cmd[d].op \in {"RPUSH", "LPUSH"}
        /\ pc[d] = "push_notify_wait"

(***************************************************************************)
(* The key-value store.                                                    *)
(***************************************************************************)
\* Task c is served in this step: its call runs from the guard to the reply.
Served(c, op) ==
    /\ cmd[c].op = op
    /\ pc[c] # "reply"
    /\ pc'[c] = "reply"

\* C8: a GET of K that follows a SET K V without option, with no other write
\* to K in between, replies V, however much time has passed; and while
\* nothing else has written to K since such a SET, the entry of K is V with
\* no deadline, whatever entry K had before the SET.
SetThenGetReturnsValue ==
    /\ \A c \in Clients :
           (pc[c] = "reply" /\ cmd[c].op = "GET" /\ loc[c].set # NoBytes)
               => result[c] = BulkString(loc[c].set)
    /\ \A k \in KvKeys :
           klog[k].set # NoBytes
               => k \in DOMAIN entries /\ entries[k] = SetOf(klog[k].set, NoInstant)

\* Witness of C8: a GET was answered with the value of a SET without option
\* that had replaced an entry with a deadline, at or after that deadline.
GetAfterSetReplacedDeadline ==
    \E c \in Clients :
        /\ pc[c] = "reply"
        /\ cmd[c].op = "GET"
        /\ loc[c].set # NoBytes
        /\ loc[c].late
        /\ result[c] = BulkString(loc[c].set)

\* C9: on a key that was absent and that only INCR has written to, the n
\* INCR calls that have returned, whoever issued them, returned 1, 2, ..., n
\* in the order they were served, each once, and the key holds the decimal
\* string of n.
IncrCountsEveryCall ==
    \A k \in KvKeys :
        klog[k].fresh =>
            LET n == Len(klog[k].incrs)
            IN  /\ \A i \in 1..n : klog[k].incrs[i].val = i
                /\ n > 0 => /\ k \in DOMAIN entries
                            /\ entries[k].value = U64ToString(n)
                /\ n = 0 => k \notin DOMAIN entries

\* Witness of C9: MaxIncr INCR calls on one fresh key have returned, from
\* more than one client.
IncrsFromTwoClients ==
    \E k \in KvKeys :
        /\ klog[k].fresh
        /\ Len(klog[k].incrs) = MaxIncr
        /\ \E i, j \in 1..MaxIncr : klog[k].incrs[i].by # klog[k].incrs[j].by

\* C10: a call that finds the entry of its key at or past its deadline does
\* not return it: GET replies null bulk and the key is absent when the step
\* ends, INCR replies 1 and leaves "1" without deadline, as for an absent
\* key, and KEYS does not list the key; a GET that finds an entry with no
\* deadline or with a deadline after the instant it reads replies with its
\* value.
ExpiredEntryNeverVisible ==
    [][\A c \in Clients :
         /\ Served(c, "GET") =>
                LET k == cmd[c].key
                IN  /\ Met(entries, k, now) = "expired"
                           => result'[c] = NullBulkString /\ k \notin DOMAIN entries'
                    /\ Met(entries, k, now) = "live"
                           => result'[c] = BulkString(entries[k].value)
         /\ Served(c, "INCR") =>
                LET k == cmd[c].key
                IN  Met(entries, k, now) = "expired"
                        => /\ result'[c] = Integer(1)
                           /\ entries'[k] = SetOf(<<"1">>, NoInstant)
         /\ Served(c, "KEYS") =>
                \A k \in DOMAIN entries :
                    Met(entries, k, now) = "expired"
                        => \A i \in 1..Len(result'[c].v) :
                               result'[c].v[i] # BulkString(k)
      ]_vars

\* Witness of C10: a GET was answered null bulk for an entry it found at or
\* past its deadline, beside a KEYS * that was answered while the map held
\* such an entry.
GetAndKeysMetExpiredEntry ==
    \E c, d \in Clients :
        /\ pc[c] = "reply"
        /\ cmd[c].op = "GET"
        /\ loc[c].met = "expired"
        /\ result[c] = NullBulkString
        /\ pc[d] = "reply"
        /\ cmd[d].op = "KEYS"
        /\ cmd[d].pattern = <<"*">>
        /\ loc[d].met = "expired"

\* The stores and the waiter queues.
Stores == <<entries, lists, streams, lblocked, sblocked>>

\* The connection of c takes a step.
Steps(c) == pc'[c] # pc[c]

Queued == SimpleString(<<"Q", "U", "E", "U", "E", "D">>)

ExecRepliesPerCommand ==
    \A c \in Clients :
        (pc[c] = "respond" /\ cmd[c].op = "EXEC" /\ result[c].t = "Array")
            => /\ Len(result[c].v) = Len(loc[c].cmds)
               /\ result[c].v = loc[c].each

\* C13: a MULTI of a client in a transaction is answered with the error
\* ERR MULTI calls can not be nested and changes no queue; the EXEC of a
\* client in a transaction takes the whole queue and its loop executes the
\* commands taken one after the other, each of them.
NestedMultiKeepsQueue ==
    [][\A c \in Clients :
         /\ (pc[c] = "multi" /\ in_transaction(tr, c) /\ Steps(c))
                => /\ pc'[c] = "respond"
                   /\ result'[c] = Error(ErrNested)
                   /\ tr' = tr
         /\ (pc[c] = "exec" /\ in_transaction(tr, c) /\ Steps(c))
                => /\ pc'[c] = "exec_loop"
                   /\ loc'[c].cmds = tr[c].q
                   /\ loc'[c].i = 0
         /\ (pc[c] = "exec_loop" /\ loc'[c] # loc[c])
                => /\ loc'[c].cmds = loc[c].cmds
                   /\ loc'[c].i = loc[c].i + 1
                   /\ loc'[c].each = Append(loc[c].each,
                         execute_command(loc[c].cmds[loc[c].i + 1], entries, now).reply)
                   /\ entries' =
                         execute_command(loc[c].cmds[loc[c].i + 1], entries, now).entries
         /\ (pc[c] = "exec_loop" /\ Steps(c)) => loc[c].i = Len(loc[c].cmds)
      ]_vars

\* Witness of C13: a MULTI was answered with the error while the queue of
\* its client held two commands.
NestedMultiRefused ==
    \E c \in Clients :
        /\ pc[c] = "respond"
        /\ cmd[c].op = "MULTI"
        /\ result[c] = Error(ErrNested)
        /\ in_transaction(tr, c)
        /\ Len(tr[c].q) = 2

\* C14: DISCARD of a client in a transaction is answered OK, leaves the
\* client outside a transaction with no queue and executes nothing: no
\* store changes.  DISCARD and EXEC of a client outside a transaction are
\* answered ERR DISCARD without MULTI and ERR EXEC without MULTI and change
\* neither the transactions nor a store.
DiscardDropsQueue ==
    [][\A c \in Clients :
         /\ (pc[c] = "discard" /\ Steps(c))
                => /\ pc'[c] = "respond"
                   /\ Stores' = Stores
                   /\ IF in_transaction(tr, c)
                      THEN /\ result'[c] = SimpleString(<<"O", "K">>)
                           /\ ~in_transaction(tr', c)
                           /\ tr'[c].q = <<>>
                           /\ \A d \in Clients \ {c} :
                                  in_transaction(tr', d) = in_transaction(tr, d)
                      ELSE /\ result'[c] = Error(ErrDiscardWithoutMulti)
                           /\ tr' = tr
         /\ (pc[c] = "exec" /\ ~in_transaction(tr, c) /\ Steps(c))
                => /\ pc'[c] = "respond"
                   /\ result'[c] = Error(ErrExecWithoutMulti)
                   /\ tr' = tr
                   /\ Stores' = Stores
      ]_vars

\* Witness of C14: DISCARD was answered OK after it dropped a queue of two
\* commands with a SET among them, and the key-value store has no entry.
DiscardedQueueNotExecuted ==
    \E c \in Clients :
        /\ pc[c] = "respond"
        /\ cmd[c].op = "DISCARD"
        /\ result[c] = SimpleString(<<"O", "K">>)
        /\ Len(loc[c].dropped) = 2
        /\ \E i \in 1..2 : loc[c].dropped[i].op = "SET"
        /\ entries = EmptyMap
        /\ ~in_transaction(tr, c)

\* C15: the step with which an XADD returns an error (an ID that is
\* malformed, 0-0, or not above the top of the stream) changes no state: no
\* stream key is created, no entry is inserted or changed, and no waiter
\* is taken from a queue or signalled.
XaddErrorChangesNothing ==
    [][\A c \in Clients :
         (cmd[c].op = "XADD" /\ Steps(c) /\ pc'[c] = "reply" /\ result'[c].t = "Error")
            => /\ streams' = streams
               /\ sblocked' = sblocked
               /\ woken' = woken
      ]_vars

\* C16: when decode is given exactly the bytes encode wrote for a reply
\* value, it returns that value, of the same variant and payload, and
\* takes all the bytes.
EncodeDecodeRoundTrip ==
    (item.kind = "reply" /\ out.kind # "Idle" /\ out.before = item.bytes)
        => /\ out.kind = "Some"
           /\ out.value = item.value
           /\ out.taken = Len(item.bytes)
           /\ out.left = <<>>

\* p is f without one or more of its last bytes.
IsStrictPrefix(p, f) == Len(p) < Len(f) /\ p = SubSeq(f, 1, Len(p))

\* The value of a frame as the decoder hands it over: the bytes of a bulk
\* string in the variant String.
RECURSIVE AsDecoded(_)
AsDecoded(value) ==
    CASE value.t = "BulkString" -> SimpleString(value.v)
      [] value.t = "Array" -> Array([i \in 1..Len(value.v) |-> AsDecoded(value.v[i])])
      [] OTHER -> value

\* C17: decode called on a strict prefix of a valid frame, also one that
\* ends right after a CR, returns need more and leaves the buffer as it
\* was; called on the frame followed by any bytes it returns the value of
\* the frame and takes exactly the bytes of the frame.
PrefixNeedsMoreFrameDecodes ==
    (item.kind = "frame" /\ out.kind # "Idle")
        => /\ IsStrictPrefix(out.before, item.bytes)
                  => out.kind = "None" /\ out.left = out.before
           /\ (Len(out.before) >= Len(item.bytes)
                  /\ SubSeq(out.before, 1, Len(item.bytes)) = item.bytes)
                  => /\ out.kind = "Some"
                     /\ out.value = AsDecoded(item.value)
                     /\ out.taken = Len(item.bytes)
                     /\ out.left = SubSeq(out.before, Len(item.bytes) + 1, Len(out.before))

\* C18: the frames of a connection are handled one after the other, and
\* when the connection waits for the next frame it has sent as many replies
\* as it has read frames: one reply for every frame, whatever the command,
\* its arity and its arguments.
EveryFrameOneReply ==
    \A c \in Clients : pc[c] = "idle" => conn[c].replies = conn[c].frames

\* The command names parse_command knows.
KnownNames ==
    { <<"P", "I", "N", "G">>, <<"E", "C", "H", "O">>, <<"S", "E", "T">>,
      <<"G", "E", "T">>, <<"R", "P", "U", "S", "H">>, <<"L", "R", "A", "N", "G", "E">>,
      <<"L", "P", "U", "S", "H">>, <<"L", "L", "E", "N">>, <<"L", "P", "O", "P">>,
      <<"B", "L", "P", "O", "P">>, <<"T", "Y", "P", "E">>, <<"X", "A", "D", "D">>,
      <<"X", "R", "A", "N", "G", "E">>, <<"X", "R", "E", "A", "D">>,
      <<"I", "N", "C", "R">>, <<"C", "O", "N", "F", "I", "G">>, <<"K", "E", "Y", "S">>,
      <<"I", "N", "F", "O">>, <<"R", "E", "P", "L", "C", "O", "N", "F">>,
      <<"M", "U", "L", "T", "I">>, <<"E", "X", "E", "C">>,
      <<"D", "I", "S", "C", "A", "R", "D">> }

\* The frame is no command: not an array, an empty array, an array whose
\* first element is not a string, or an unknown command name.
IsNoCommand(value) ==
    \/ value.t # "Array"
    \/ value.v = <<>>
    \/ value.v[1].t # "String"
    \/ to_uppercase(value.v[1].v) \notin KnownNames

\* The connection of c is handling, or has just handled, a frame.
HasFrame(c) == "frame" \in DOMAIN loc[c]

\* C19: a frame that is no command is answered with an error value, and
\* the connection goes on.
NoCommandAnswered ==
    \A c \in Clients :
        (HasFrame(c) /\ IsNoCommand(loc[c].frame))
            => pc[c] = "respond" /\ result[c].t = "Error"

\* The frames of known commands with a missing argument or an argument of
\* the wrong type.
InvalidFrames ==
    { CommandFrame(<<<<"E", "C", "H", "O">>>>),
      CommandFrame(<<<<"S", "E", "T">>, <<"k">>>>),
      Array(<<SimpleString(<<"G", "E", "T">>), Integer(1)>>),
      CommandFrame(<<<<"S", "E", "T">>, <<"k">>, <<"7">>, <<"E", "X">>, <<"x">>>>),
      CommandFrame(<<<<"L", "R", "A", "N", "G", "E">>, <<"k">>, <<"x">>, <<"1">>>>),
      CommandFrame(<<<<"L", "P", "O", "P">>, <<"k">>, <<"x">>>>),
      CommandFrame(<<<<"B", "L", "P", "O", "P">>, <<"k">>, <<"x">>>>),
      CommandFrame(<<<<"X", "R", "E", "A", "D">>, <<"b", "l", "o", "c", "k">>, <<"x">>,
                     <<"s", "t", "r", "e", "a", "m", "s">>, <<"s">>, <<"$">>>>) }

\* C20: a known command with a missing or ill-typed argument is answered
\* with an error and the connection goes on; so is an XADD with an odd
\* number of field and value tokens, and no stream is created or changed
\* by it (these clients send no other XADD).
InvalidCommandAnswered ==
    /\ \A c \in Clients :
          (HasFrame(c) /\ loc[c].frame \in InvalidFrames)
              => pc[c] = "respond" /\ result[c].t = "Error"
    /\ \A c \in Clients :
          (cmd[c].op = "XADD" /\ Len(cmd[c].kv) % 2 = 1)
              => /\ pc[c] # "panicked"
                 /\ pc[c] = "reply" => result[c].t = "Error"
    /\ streams = EmptyMap

\* C21: a SET with EX n or PX n stores the deadline n seconds or
\* milliseconds after the instant of the SET; after a SET with EXAT t or
\* PXAT t, a GET of the key replies the value while the wall clock is
\* before the Unix time t and null bulk once the wall clock has reached t,
\* whenever the SET was issued.
SetDeadlines ==
    [][\A c \in Clients :
         /\ (Served(c, "SET") /\ cmd[c].expiry # NoExpiry)
                => LET k == cmd[c].key
                       n == cmd[c].expiry[2]
                   IN  /\ cmd[c].expiry[1] = <<"E", "X">>
                              => entries'[k].expiry = now + 1000 * n
                       /\ cmd[c].expiry[1] = <<"P", "X">>
                              => entries'[k].expiry = now + n
         /\ (Served(c, "GET") /\ klog[cmd[c].key].due # NoInstant)
                => LET k == cmd[c].key
                   IN  IF current_unix_timestamp_ms < klog[k].due
                       THEN /\ k \in DOMAIN entries
                            /\ result'[c] = BulkString(entries[k].value)
                       ELSE result'[c] = NullBulkString
      ]_vars

\* C22: a zero timeout is translated by the dispatcher to the same 24
\* hours for both commands: BLPOP K 0 calls the list store with 86400
\* seconds and XREAD block 0 calls the stream store with 86400000
\* milliseconds; no store is called with a zero timeout.
ZeroTimeoutIsOneDay ==
    \A c \in Clients :
        (cmd[c].op \in {"BLPOP", "XREAD"} /\ "timeout" \in DOMAIN cmd[c]
         /\ cmd[c].timeout # NoInstant)
            => LET asked == cmd[c].frame.v[3].v
               IN  /\ cmd[c].timeout # 0
                   /\ asked = <<"0">> => cmd[c].timeout = 86400 * 1000

\* C23: LRANGE K start end on a list of len >= 1 elements replies the
\* elements s..e inclusive, where s = max(0, start counted from the end
\* when negative) and e = min(len - 1, end counted from the end when
\* negative), and the empty array when s > e, so for every start >= len;
\* it never changes the list.
LrangeRepliesClampedSlice ==
    [][\A c \in Clients :
         (Served(c, "LRANGE") /\ Len(ListOf(lists, cmd[c].key)) >= 1)
            => LET list == lists[cmd[c].key]
                   len == Len(list)
                   start == cmd[c].start
                   end == cmd[c].end
                   s == Larger(0, IF start >= 0 THEN start ELSE len + start)
                   e == Min(len - 1, IF end >= 0 THEN end ELSE len + end)
               IN  /\ result'[c] =
                          Array(IF s > e THEN <<>>
                                ELSE [i \in 1..(e - s + 1) |-> BulkString(list[s + i])])
                   /\ lists' = lists
      ]_vars

\* The positions, in the stream of a key, of the entries whose ID is
\* greater than from_id as a pair of numbers; none for "$".
NewsOf(strs, stream_key, from_id) ==
    IF from_id = <<"$">> THEN {}
    ELSE { i \in 1..Len(StreamMap(strs, stream_key)) :
             IdLess(IdTs(from_id), IdSeq(from_id),
                    StreamMap(strs, stream_key)[i].ts,
                    StreamMap(strs, stream_key)[i].seq) }

\* The keys of the pairs of kv that have such entries, in the order listed.
RECURSIVE KeysWithNews(_, _)
KeysWithNews(strs, kv) ==
    IF Len(kv) < 2 THEN <<>>
    ELSE (IF NewsOf(strs, kv[1], kv[2]) # {} THEN <<kv[1]>> ELSE <<>>)
           \o KeysWithNews(strs, Tail(Tail(kv)))

\* The from-id given with a key in kv.
FromIdOf(kv, stream_key) ==
    kv[1 + CHOOSE i \in 1..Len(kv) : i % 2 = 1 /\ kv[i] = stream_key]

\* C24: XREAD without block replies, for every listed key that has an
\* entry with an ID greater than its from-id as a pair (ms, seq), one
\* element [key, entries] holding exactly those entries in ascending
\* order; keys with none are left out, "$" gives no entries, and no state
\* is changed.
XreadRepliesNewerEntriesAscending ==
    [][\A c \in Clients :
         (Served(c, "XREAD") /\ ~cmd[c].block)
            => LET res == result'[c].v
                   kv == cmd[c].kv
               IN  /\ result'[c].t = "Array"
                   /\ [i \in 1..Len(res) |-> res[i].key] = KeysWithNews(streams, kv)
                   /\ \A i \in 1..Len(res) :
                         LET found == res[i].entries
                             map == StreamMap(streams, res[i].key)
                             news == NewsOf(streams, res[i].key, FromIdOf(kv, res[i].key))
                         IN  /\ Len(found) = Cardinality(news)
                             /\ {found[j] : j \in 1..Len(found)}
                                   = {EntryReply(map[j]) : j \in news}
                             /\ \A j, l \in 1..Len(found) :
                                   j < l => IdLess(IdTs(found[j].id), IdSeq(found[j].id),
                                                   IdTs(found[l].id), IdSeq(found[l].id))
                   /\ streams' = streams
                   /\ sblocked' = sblocked
      ]_vars

\* C25: a blocking XREAD from "$" on S that is waiting when an XADD on S
\* succeeds, and is signalled before its timeout, replies the entry that
\* was added and not null-array.
BlockedXreadRepliesNewEntry ==
    [][\A c \in Clients :
         (/\ pc[c] = "xread_again"
          /\ Steps(c)
          /\ cmd[c].kv[2] = <<"$">>
          /\ Len(xlog[cmd[c].key]) > Len(loc[c].snap))
            => LET added == xlog[cmd[c].key][Len(loc[c].snap) + 1]
                   res == result'[c].v
               IN  /\ result'[c].t = "Array"
                   /\ \E i \in 1..Len(res) :
                         /\ res[i].key = cmd[c].key
                         /\ \E j \in 1..Len(res[i].entries) :
                               res[i].entries[j].id = FormatId(added.ts, added.seq)
      ]_vars

\* C26: every RPUSH and LPUSH of one value replies the length its own
\* push gave the list and, after it released the guard of the lists,
\* signals at most one waiter of the key: the earliest registered one whose
\* receiver is still open.  Every closed sender ahead of it leaves the
\* queue, the signalled sender leaves the queue, and no waiter is
\* signalled twice.
PushSignalsEarliestOpenWaiter ==
    [][\A c \in Clients :
         LET key == cmd[c].key
             queue == ListOf(lblocked, key)
             open == {i \in 1..Len(queue) : ~is_closed(queue[i])}
         IN  /\ (pc[c] = "push_data" /\ Steps(c))
                    => /\ Len(lists'[key]) = Len(ListOf(lists, key)) + 1
                       /\ loc'[c].new_len = Len(lists'[key])
             /\ (pc[c] = "push_notify" /\ Steps(c))
                    => /\ result'[c] = Integer(loc[c].new_len)
                       /\ "lists" \notin Held(c)
                       /\ IF open = {}
                          THEN /\ woken' = woken
                               /\ key \notin DOMAIN lblocked'
                          ELSE LET first == CHOOSE i \in open : \A j \in open : i <= j
                               IN  /\ \E d \in Clients : rx[d] = queue[first] /\ ~woken[d]
                                   /\ \A d \in Clients :
                                         woken'[d] = (woken[d] \/ rx[d] = queue[first])
                                   /\ ListOf(lblocked', key)
                                         = SubSeq(queue, first + 1, Len(queue))
                                   /\ queue[first] \notin QueuedSenders(lblocked')
      ]_vars

\* Witness of C26: a push has replied after its loop popped a closed sender
\* and signalled the waiter registered behind it, which has not run yet.
PushPassedClosedWaiter ==
    \E c, d \in Clients :
        /\ pc[c] = "reply"
        /\ cmd[c].op \in {"RPUSH", "LPUSH"}
        /\ loc[c].dropped >= 1
        /\ pc[d] = "blpop_waiting"
        /\ woken[d]
        /\ cmd[d].key = cmd[c].key

\* C27: INCR on a key whose value is not a decimal integer replies
\* 'ERR value is not an integer or out of range' and leaves the value and
\* the deadline of the key as they were.
IncrOnTextRepliesError ==
    [][\A c \in Clients :
         (/\ cmd[c].op = "INCR"
          /\ pc[c] = "incr_wait"
          /\ Steps(c)
          /\ Met(entries, cmd[c].key, now) = "live"
          /\ ~ParseI64(entries[cmd[c].key].value).ok)
            => /\ pc'[c] = "reply"
               /\ result'[c] = Error(ErrNotInteger)
               /\ entries' = entries
      ]_vars

\* Witness of C27: an INCR was answered with the error on a key that holds
\* a text and a deadline still ahead.
IncrRefusedText ==
    \E c \in Clients :
        /\ pc[c] = "reply"
        /\ cmd[c].op = "INCR"
        /\ result[c] = Error(ErrNotInteger)
        /\ Met(entries, cmd[c].key, now) = "live"
        /\ entries[cmd[c].key].value = <<"x">>
        /\ entries[cmd[c].key].expiry # NoInstant

\* C28: INCR on a key that holds i64::MAX replies the out-of-range error:
\* it neither panics nor wraps around, and the stored value stays.
IncrAtMaxRepliesError ==
    [][\A c \in Clients :
         (/\ cmd[c].op = "INCR"
          /\ pc[c] = "incr_wait"
          /\ Steps(c)
          /\ Met(entries, cmd[c].key, now) = "live"
          /\ entries[cmd[c].key].value = I64ToString(I64Max))
            => /\ pc'[c] = "reply"
               /\ result'[c] = Error(ErrNotInteger)
               /\ entries' = entries
      ]_vars

\* C29: an INCR that succeeds on an entry that is there, with a number and
\* no deadline passed, changes the value of the entry and nothing else:
\* the deadline, or its absence, stays.
IncrKeepsDeadline ==
    [][\A c \in Clients :
         (/\ cmd[c].op = "INCR"
          /\ pc[c] = "incr_wait"
          /\ Steps(c)
          /\ Met(entries, cmd[c].key, now) = "live"
          /\ result'[c].t = "Int")
            => /\ DOMAIN entries' = DOMAIN entries
               /\ \A k \in DOMAIN entries :
                     /\ entries'[k].expiry = entries[k].expiry
                     /\ k # cmd[c].key => entries'[k] = entries[k]
               /\ ParseI64(entries'[cmd[c].key].value).val = result'[c].v
      ]_vars

\* Witness of C29: an INCR replied 8 on a key set to 7 with a deadline,
\* which is still ahead.
IncrCountedUnderDeadline ==
    \E c \in Clients :
        /\ pc[c] = "reply"
        /\ cmd[c].op = "INCR"
        /\ result[c] = Integer(8)
        /\ loc[c].met = "live"
        /\ cmd[c].key \in DOMAIN entries
        /\ entries[cmd[c].key].value = <<"8">>
        /\ entries[cmd[c].key].expiry > now

\* The elements a reply of LPOP holds: one bulk string, or an array of them.
Popped(reply) ==
    IF reply.t = "BulkString" THEN <<reply.v>>
    ELSE [i \in 1..Len(reply.v) |-> reply.v[i].v]

\* C30: LPOP K count on a list of len >= 1 elements removes and replies
\* its first min(count, len) elements from the head on, leaves the others
\* in their order and removes K when none is left; on a key that is absent
\* it replies null bulk and changes nothing.
LpopTakesFromHead ==
    [][\A c \in Clients :
         (cmd[c].op = "LPOP" /\ pc[c] = "lpop" /\ Steps(c))
            => LET key == cmd[c].key
                   list == ListOf(lists, key)
                   n == Min(cmd[c].count, Len(list))
               IN  IF key \notin DOMAIN lists
                   THEN /\ result'[c] = NullBulkString
                        /\ lists' = lists
                   ELSE /\ Len(list) >= 1
                        /\ result'[c].t \in {"BulkString", "Array"}
                        /\ Popped(result'[c]) = SubSeq(list, 1, n)
                        /\ ListOf(lists', key) = SubSeq(list, n + 1, Len(list))
                        /\ (key \in DOMAIN lists') = (n < Len(list))
      ]_vars

\* Witness of C30: LPOP K 1 has replied the head of a list of two elements
\* and the other one is still there.
LpopLeftTheRest ==
    \E c \in Clients :
        /\ pc[c] = "reply"
        /\ cmd[c].op = "LPOP"
        /\ cmd[c].count = 1
        /\ result[c].t = "BulkString"
        /\ cmd[c].key \in DOMAIN lists
        /\ \A d \in Clients \ {c} : pc[d] = "idle"

\* C31: a BLPOP that was signalled and finds K empty or absent when it
\* holds the guard of the lists again replies null-array at once: it has
\* no receiver and no open sender in a queue any more, it registers no
\* waiter again, and its step changes neither the lists nor the queues.
SignalledBlpopOnEmptyRepliesNull ==
    [][\A c \in Clients :
         (/\ pc[c] = "blpop_retry"
          /\ Steps(c)
          /\ ListOf(lists, cmd[c].key) = <<>>)
            => /\ pc'[c] = "reply"
               /\ result'[c] = NullArray
               /\ rx[c] = 0
               /\ rx'[c] = 0
               /\ lists' = lists
               /\ lblocked' = lblocked
      ]_vars

\* Witness of C31: a BLPOP whose wait ended with a signal has replied
\* null-array, another client having popped since it was called.
SignalledBlpopFoundNothing ==
    \E c \in Clients :
        /\ pc[c] = "reply"
        /\ cmd[c].op = "BLPOP"
        /\ loc[c].signalled
        /\ loc[c].watch.pops = 1
        /\ result[c] = NullArray

\* C32: when a BLPOP on K or a blocking XREAD whose first key is K replies
\* null-array because its timeout elapsed, its own sender is not in the
\* waiter queue of K any more, and for the XREAD no closed sender is.
TimedOutNotifierLeavesQueue ==
    [][\A c \in Clients :
         /\ (pc[c] = "blpop_waiting" /\ pc'[c] = "reply")
                => rx[c] \notin QueuedSenders(lblocked')
         /\ (pc[c] = "bxread_cleanup" /\ pc'[c] = "reply")
                => \A sender \in QueuedSenders(sblocked') : ~is_closed(sender)
      ]_vars

\* C33: XADD on K signals the earliest registered waiter of K whose
\* receiver is still open: the closed senders ahead of it are discarded by
\* the same call, and it leaves the queue with them.
XaddSignalsEarliestOpenWaiter ==
    [][\A c \in Tasks :
         (pc[c] = "xadd_notify" /\ Steps(c))
            => LET key == cmd[c].key
                   queue == IF key \in DOMAIN sblocked THEN sblocked[key] ELSE <<>>
                   open == {i \in 1..Len(queue) : ~is_closed(queue[i])}
               IN  open # {}
                     => LET first == CHOOSE i \in open : \A j \in open : i <= j
                        IN  /\ \A d \in Tasks :
                                  woken'[d] = (woken[d] \/ rx[d] = queue[first])
                            /\ queue[first] \notin QueuedSenders(sblocked')
      ]_vars

\* C34: a blocking XREAD over the keys k1, k2, ... replies at once when the
\* XREAD without block has something to reply; otherwise it registers one
\* waiter, on k1 only.  A successful XADD on k1 wakes it, and it replies
\* what XREAD without block replies over all its keys; an XADD on another
\* key does not wake it, and when its timeout elapses it replies
\* null-array.
BlockedXreadWaitsOnFirstKey ==
    [][\A c \in Tasks :
         LET kv == cmd[c].kv
         IN  /\ (pc[c] = "xread" /\ Steps(c) /\ cmd[c].block)
                    => IF xread(streams, kv) # <<>>
                       THEN /\ pc'[c] = "reply"
                            /\ result'[c] = Array(xread(streams, kv))
                       ELSE pc'[c] = "bxread_register_wait"
             /\ (pc[c] = "bxread_register" /\ Steps(c))
                    => /\ DOMAIN sblocked' = DOMAIN sblocked \cup {kv[1]}
                       /\ \A k \in DOMAIN sblocked' :
                             sblocked'[k] =
                                IF k = kv[1]
                                THEN Append(IF k \in DOMAIN sblocked
                                            THEN sblocked[k] ELSE <<>>, rx'[c])
                                ELSE sblocked[k]
             /\ (pc[c] = "bxread_waiting" /\ ~woken[c])
                    => \A d \in Tasks :
                          (/\ pc[d] = "xadd_notify"
                           /\ Steps(d)
                           /\ loc[d].res.t = "BulkString")
                             => woken'[c] = (cmd[d].key = kv[1])
             /\ (pc[c] = "xread_again" /\ Steps(c))
                    => /\ pc'[c] = "reply"
                       /\ result'[c] = Array(xread(streams, kv))
             /\ (pc[c] = "bxread_cleanup" /\ Steps(c))
                    => /\ pc'[c] = "reply"
                       /\ result'[c] = NullArray
      ]_vars

\* C35: XADD S ms-* takes the sequence number 1 when S is empty or absent
\* and ms is 0, 0 when S is empty or absent and ms is above 0, one more than
\* the sequence number of the greatest ID of S when ms is the milliseconds
\* part of that ID, and 0 when ms is not.
PartialIdSequenceNumber ==
    [][\A c \in Clients :
         LET stream_id == cmd[c].id
             map == StreamMap(streams, cmd[c].key)
             greatest == CHOOSE e \in {map[i] : i \in 1..Len(map)} :
                            \A i \in 1..Len(map) :
                               ~IdLess(e.ts, e.seq, map[i].ts, map[i].seq)
             ms == ParseU64(IdTs(stream_id))
         IN  (/\ pc[c] = "xadd_resolve"
              /\ Steps(c)
              /\ Memchr("-", stream_id) # 0
              /\ IdSeq(stream_id) = <<"*">>
              /\ IdTs(stream_id) # <<"*">>)
                => /\ pc'[c] = "xadd_insert_wait"
                   /\ loc'[c].ts = IdTs(stream_id)
                   /\ ParseU64(loc'[c].seq) =
                         IF map = <<>>
                         THEN IF ms = 0 THEN 1 ELSE 0
                         ELSE IF ParseU64(greatest.ts) = ms
                              THEN ParseU64(greatest.seq) + 1
                              ELSE 0
      ]_vars

\* C36: a client is in a transaction exactly from its own MULTI that is
\* answered OK until its own next EXEC or DISCARD: no step of another
\* client changes its transaction state or its queue, and a command of a
\* client that is not in a transaction is executed at once, whatever
\* transactions the other clients are in.
TransactionsArePerClient ==
    [][\A c \in Clients :
         LET before == IF c \in DOMAIN tr THEN tr[c] ELSE NewState
             after == IF c \in DOMAIN tr' THEN tr'[c] ELSE NewState
             ok == SimpleString(<<"O", "K">>)
         IN  /\ (pc[c] = "multi" /\ Steps(c))
                    => /\ after.some
                       /\ (result'[c] = ok) = ~before.some
             /\ (pc[c] \in {"exec", "discard"} /\ Steps(c)) => ~after.some
             /\ ~(pc[c] \in {"multi", "exec", "discard"} /\ Steps(c))
                    => after.some = before.some
             /\ ~(pc[c] \in {"multi", "exec", "discard", "queue"} /\ Steps(c))
                    => after = before
             /\ (pc[c] = "in_transaction" /\ Steps(c) /\ ~before.some)
                    => pc'[c] = "execute"
             /\ (pc[c] = "execute" /\ Steps(c))
                    => /\ ~before.some
                       /\ tr' = tr
                       /\ entries' = execute_command(cmd[c], entries, now).entries
                       /\ execute_command(cmd[c], entries, now).reply # NoReply
                             => /\ pc'[c] = "respond"
                                /\ result'[c] =
                                      execute_command(cmd[c], entries, now).reply
      ]_vars

\* Witness of C36: one client is in a transaction with a command queued,
\* and a SET of the other client, which is in none, was executed and
\* answered.
ExecutedBesideTransaction ==
    \E c, d \in Clients :
        /\ c # d
        /\ in_transaction(tr, d)
        /\ Len(tr[d].q) = 1
        /\ ~in_transaction(tr, c)
        /\ pc[c] = "respond"
        /\ cmd[c].op = "SET"
        /\ result[c] = SimpleString(<<"O", "K">>)
        /\ entries # EmptyMap

\* C37: waiters of BLPOP are served in the order they registered: with c1
\* and then c2 waiting on K, both alive, and v and then w appended by two
\* calls of RPUSH, c1 replies [K, v] and c2 replies [K, w], however the
\* steps of the two woken waiters interleave.
BlpopWaitersServedInOrder ==
    /\ (pc["c1"] = "reply" /\ cmd["c1"].op = "BLPOP")
          => result["c1"] = Array(<<BulkString("K"), BulkString("v")>>)
    /\ (pc["c2"] = "reply" /\ cmd["c2"].op = "BLPOP")
          => result["c2"] = Array(<<BulkString("K"), BulkString("w")>>)

\* C38: no wake-up is lost between the emptiness check of BLPOP and its
\* registration: whenever a BLPOP on K is suspended with its sender in the
\* queue and no signal sent, and no push on K is in progress, the list K is
\* empty.
SuspendedBlpopSeesEmptyList ==
    \A c \in Clients :
        (/\ cmd[c].op = "BLPOP"
         /\ WaitsUnsignalled(c)
         /\ \A d \in Clients :
               ~(/\ cmd[d].op \in {"RPUSH", "LPUSH"}
                 /\ cmd[d].key = cmd[c].key
                 /\ pc[d] \notin {"idle", "reply"}))
            => ListOf(lists, cmd[c].key) = <<>>

\* C39: in every interleaving of RPUSH, LPUSH, LPOP and BLPOP on K a
\* pushed value is returned by at most one pop, and the values returned
\* together with those in the deque are the values pushed: a push adds its
\* value to the deque and nothing else, a pop takes from the deque what it
\* returns and nothing else, and no other step changes the deque.
ListValuesConserved ==
    [][\A k \in ListKeys, x \in ListValues :
         LET Count(q) == Cardinality({i \in 1..Len(q) : q[i] = x})
             before == Count(ListOf(lists, k))
             after == Count(ListOf(lists', k))
             Returned(c) ==
                 IF result'[c].t = "BulkString" THEN <<result'[c].v>>
                 ELSE IF result'[c].t # "Array" THEN <<>>
                 ELSE IF cmd[c].op = "BLPOP" THEN <<result'[c].v[2].v>>
                 ELSE [i \in 1..Len(result'[c].v) |-> result'[c].v[i].v]
         IN  /\ \A c \in Clients :
                  /\ (pc[c] = "push_data" /\ Steps(c) /\ cmd[c].key = k)
                        => after = before + (IF cmd[c].value = x THEN 1 ELSE 0)
                  /\ (pc[c] \in {"lpop", "blpop_check", "blpop_retry"}
                         /\ Steps(c) /\ cmd[c].key = k)
                        => IF pc'[c] = "reply"
                           THEN after + Count(Returned(c)) = before
                           ELSE after = before
             /\ (\A c \in Clients :
                    ~(pc[c] \in {"push_data", "lpop", "blpop_check", "blpop_retry"}
                        /\ Steps(c)))
                  => ListOf(lists', k) = ListOf(lists, k)
      ]_vars

\* Witness of C39: of two values pushed, a BLPOP that a push woke has
\* returned one and the other is in the deque.
PoppedOneLeftOther ==
    \E c \in Clients :
        /\ pc[c] = "reply"
        /\ cmd[c].op = "BLPOP"
        /\ loc[c].signalled
        /\ result[c] = Array(<<BulkString(cmd[c].key), BulkString("v")>>)
        /\ ListOf(lists, cmd[c].key) = <<"w">>

\* C40: when two clients are blocked in XREAD with block on the same
\* stream S, each from an ID below that of a new entry, one successful XADD
\* on S makes both of them reply the new entry before their timeouts: the
\* XADD signals every reader that waits on S from an ID below the new one.
XaddWakesEveryBlockedReader ==
    [][\A d \in Tasks :
         (/\ pc[d] = "xadd_notify"
          /\ Steps(d)
          /\ loc[d].res.t = "BulkString")
            => \A c \in Clients :
                  (/\ cmd[c].op = "XREAD"
                   /\ pc[c] = "bxread_waiting"
                   /\ ~woken[c]
                   /\ rx[c] \in QueuedSenders(sblocked)
                   /\ cmd[c].kv[1] = cmd[d].key
                   /\ IdLess(IdTs(cmd[c].kv[2]), IdSeq(cmd[c].kv[2]),
                             loc[d].ts, loc[d].seq))
                     => woken'[c]
      ]_vars

====
